---- MODULE Spec2Model ----
(***************************************************************************)
(* State-machine model of sabaton-rs/corelib.                              *)
(*                                                                         *)
(* Part 1: the A/B bootloader message (src/src/bootloader/message.rs) and  *)
(* the boot control service on top of it                                   *)
(* (src/src/bootloader/bootcontrol.rs).                                    *)
(*                                                                         *)
(* Part 2: the netlink uevent listener and the sysfs uevent replayer       *)
(* (src/src/uevent/mod.rs).                                                *)
(*                                                                         *)
(* Part 3: first-stage mounting (src/src/mount/early_partitions.rs,        *)
(* src/src/mount/verity.rs, src/src/mount/early_mount.rs) and device node  *)
(* creation (src/src/uevent/handle_events.rs).                             *)
(*                                                                         *)
(* Conventions.  Rust byte arrays are 0-based; a byte array is modelled as *)
(* a TLA+ sequence and At(s, k) reads Rust index k.  TLC integers are      *)
(* 32-bit signed, so a u32 is held as its four base-256 digits, least      *)
(* significant digit first.                                                *)
(***************************************************************************)
EXTENDS Integers, Sequences, FiniteSets, TLC

VARIABLES
    misc,      \* first 4096 bytes of the MISC partition (a message record)
    handle,    \* the BootControlImpl's in-memory BootloaderMessageAB, or NoHandle
    cmdline,   \* slot suffix named on /proc/cmdline
    faults,    \* number of I/O failures the environment has injected so far
    last       \* the last call made: [op, arg, ret, image], ret being what it
               \* returned and image the slice it handed to write_all, or NoImage

VARIABLES
    sock,      \* messages queued on the NETLINK_KOBJECT_UEVENT socket, oldest first
    frames,    \* call stack of regenerate_uevent_for_dir: [dir, pc, todo, got]
    cb,        \* the predicate passed to the running call (devname it stops on)
    seen,      \* events the predicate was invoked on during the current call
    writes,    \* directories whose uevent file got "add\n" during the current call
    outcome,   \* what the last top-level regenerate_uevent_for_dir call returned
    calls,     \* number of top-level calls made on the socket so far
    injected   \* number of messages other senders have put on the socket

VARIABLES
    fstab_entries,  \* the parsed /etc/fstab: [mountpoint, fs_manager_flags]
    mep_pc,         \* where mount_early_partitions stands
    syscalls,       \* what mount_early_partitions did so far: [op, entry, target, ok]
    mep_result,     \* what mount_early_partitions returned, or "none"
    entry_index,    \* position of the loop over the remaining entries
    count,          \* attempts left for the root device
    next_dm_index,  \* index of the next device-mapper name
    dm              \* whether the verity mapper (Dm handle) was constructed

VARIABLES
    em_pc,          \* the step early_mount is about to make (0: not called)
    em_done,        \* steps early_mount made so far: [step, ok]
    errors,         \* the vector of messages early_mount collects
    proc_misc,      \* what /proc/misc holds when it is read
    em_result       \* "none", "returned" or "panic"

VARIABLES
    devfs           \* what is found at each path under /dev

bcsVars == <<misc, handle, cmdline, faults>>
ueVars == <<sock, frames, cb, seen, writes, outcome, calls, injected>>
mepVars == <<fstab_entries, mep_pc, syscalls, mep_result, entry_index, count,
             next_dm_index, dm>>

emVars == <<em_pc, em_done, errors, proc_misc, em_result>>

\* what the actions of one component leave alone
otherThanBcs == <<ueVars, mepVars, emVars, devfs>>
otherThanUevent == <<bcsVars, mepVars, emVars, devfs>>
otherThanMep == <<bcsVars, ueVars, emVars, devfs>>
otherThanEm == <<bcsVars, ueVars, mepVars, devfs>>
otherThanDev == <<bcsVars, ueVars, mepVars, emVars>>

vars == <<misc, handle, cmdline, faults, last,
          sock, frames, cb, seen, writes, outcome, calls, injected,
          fstab_entries, mep_pc, syscalls, mep_result, entry_index, count,
          next_dm_index, dm,
          em_pc, em_done, errors, proc_misc, em_result, devfs>>

(***************************************************************************)
(* Bounds of the model (not program constants).                            *)
(***************************************************************************)
\* largest nb_slot value placed in an initial MISC record (the field holds 0..15)
MaxNbSlot == 5
\* largest slot index passed to a BCS call
MaxSlotIndex == 4
\* number of I/O failures injected in one run
MaxFaults == 1

(***************************************************************************)
(* Layout of BootloaderMessageAB.slot_suffix / BootloaderControl.          *)
(***************************************************************************)
SlotSuffixRegionLen == 32
ControlBodyLen == 28
SuffixLen == 4
NumSlotInfo == 4
Bitfield1Offset == 9
SlotInfoOffset == 12
SlotMetadataSize == 2
MessageABSize == 4096

At(s, k) == s[k + 1]
Slice(s, lo, hi) == SubSeq(s, lo + 1, hi)
Pow2(n) == 2 ^ n

(***************************************************************************)
(* CRC-32/ISO-HDLC (crc crate, CRC_32_ISO_HDLC): reflected polynomial      *)
(* 0xEDB88320, init 0xFFFFFFFF, xorout 0xFFFFFFFF, byte-at-a-time table.   *)
(***************************************************************************)
RECURSIVE XorBits(_, _)
XorBits(a, b) ==
    IF a = 0 THEN b
    ELSE IF b = 0 THEN a
    ELSE ((a + b) % 2) + 2 * XorBits(a \div 2, b \div 2)

XorTable == [a \in 0..255 |-> [b \in 0..255 |-> XorBits(a, b)]]

Xor8(a, b) == XorTable[a][b]

Xor32(a, b) == <<Xor8(a[1], b[1]), Xor8(a[2], b[2]), Xor8(a[3], b[3]), Xor8(a[4], b[4])>>

Shr1(c) ==
    << c[1] \div 2 + (c[2] % 2) * 128,
       c[2] \div 2 + (c[3] % 2) * 128,
       c[3] \div 2 + (c[4] % 2) * 128,
       c[4] \div 2 >>

\* 0xEDB88320, least significant digit first
CrcPolyReflected == <<32, 131, 184, 237>>
AllOnes32 == <<255, 255, 255, 255>>

RECURSIVE CrcTableEntry(_, _)
CrcTableEntry(c, k) ==
    IF k = 0 THEN c
    ELSE CrcTableEntry(IF c[1] % 2 = 1 THEN Xor32(Shr1(c), CrcPolyReflected) ELSE Shr1(c),
                       k - 1)

CrcTable == [b \in 0..255 |-> CrcTableEntry(<<b, 0, 0, 0>>, 8)]

CrcByte(c, d) ==
    LET t == CrcTable[Xor8(c[1], d)]
    IN  <<Xor8(t[1], c[2]), Xor8(t[2], c[3]), Xor8(t[3], c[4]), t[4]>>

RECURSIVE CrcUpdate(_, _, _)
CrcUpdate(c, data, i) ==
    IF c[1] < 0 \/ i > Len(data) THEN c
    ELSE CrcUpdate(CrcByte(c, data[i]), data, i + 1)

\* algo.checksum(data)
Checksum(data) == Xor32(CrcUpdate(AllOnes32, data, 1), AllOnes32)

\* u32::to_ne_bytes / u32::from_ne_bytes on the little-endian targets the
\* library is built for: byte k of the array is digit k of the value.
ToNeBytes(v) == <<v[1], v[2], v[3], v[4]>>
FromNeBytes(b0, b1, b2, b3) == <<b0, b1, b2, b3>>

(***************************************************************************)
(* Bitfields (c2rust_bitfields): field bits lo..=hi of one byte.           *)
(***************************************************************************)
GetBits(byte, lo, hi) == (byte \div Pow2(lo)) % Pow2(hi - lo + 1)
SetBits(byte, lo, hi, v) ==
    byte - GetBits(byte, lo, hi) * Pow2(lo) + (v % Pow2(hi - lo + 1)) * Pow2(lo)

\* BootloaderControl accessors over the 32-byte region that aliases it
nb_slot(ctrl) == GetBits(At(ctrl, Bitfield1Offset), 0, 3)
recovery_tries_remaining(ctrl) == GetBits(At(ctrl, Bitfield1Offset), 4, 6)
SlotData0(i) == SlotInfoOffset + SlotMetadataSize * i
priority(ctrl, i) == GetBits(At(ctrl, SlotData0(i)), 0, 3)
tries_remaining(ctrl, i) == GetBits(At(ctrl, SlotData0(i)), 4, 6)
successful_boot(ctrl, i) == GetBits(At(ctrl, SlotData0(i)), 7, 7)
verity_corrupted(ctrl, i) == GetBits(At(ctrl, SlotData0(i) + 1), 0, 0)

set_priority(ctrl, i, v) ==
    [ctrl EXCEPT ![SlotData0(i) + 1] = SetBits(@, 0, 3, v)]
set_tries_remaining(ctrl, i, v) ==
    [ctrl EXCEPT ![SlotData0(i) + 1] = SetBits(@, 4, 6, v)]
set_verity_corrupted(ctrl, i, v) ==
    [ctrl EXCEPT ![SlotData0(i) + 2] = SetBits(@, 0, 0, v)]
\* faulty variant of set_successful_boot: the flag is taken to be bit 6
set_successful_boot_Bit6(ctrl, i, v) ==
    [ctrl EXCEPT ![SlotData0(i) + 1] = SetBits(@, 6, 6, v)]
set_successful_boot(ctrl, i, v) ==
    [ctrl EXCEPT ![SlotData0(i) + 1] = SetBits(@, 7, 7, v)]

(***************************************************************************)
(* BootloaderMessageAB: a record of its four fields.  The 2048-byte legacy *)
(* message, the update channel and the padding are never interpreted by    *)
(* this code and are held as opaque values; slot_suffix is the 32-byte     *)
(* sequence that aliases BootloaderControl.                                *)
(***************************************************************************)
\* records, so that they compare with message records
NoHandle == [absent |-> "handle"]
NoImage == [absent |-> "image"]
LegacyOffset == 2048

Ok(v) == [tag |-> "Ok", val |-> v]
Err(kind) == [tag |-> kind]
\* what last.ret holds before any call was made
NoCall == [tag |-> "none"]

\* the comparison both accessors make: stored u32 against the recomputed one
CrcMatches(m) ==
    FromNeBytes(At(m.slot_suffix, 28), At(m.slot_suffix, 29),
                At(m.slot_suffix, 30), At(m.slot_suffix, 31))
        = Checksum(Slice(m.slot_suffix, 0, ControlBodyLen))

\* faulty variant of get_bootloader_control: no CRC comparison
get_bootloader_control_Unchecked(m) == Ok(m.slot_suffix)

get_bootloader_control(m) ==
    IF ~CrcMatches(m) THEN Err("CrcFailure") ELSE Ok(m.slot_suffix)

get_bootloader_control_mut(m) ==
    IF ~CrcMatches(m) THEN Err("CrcFailure") ELSE Ok(m.slot_suffix)

\* faulty variant of set_checksum: the checksum is stored most significant
\* byte first
set_checksum_Reversed(m) ==
    LET computed_checksum == ToNeBytes(Checksum(Slice(m.slot_suffix, 0, ControlBodyLen)))
    IN  [m EXCEPT !.slot_suffix = [@ EXCEPT ![29] = computed_checksum[4],
                                            ![30] = computed_checksum[3],
                                            ![31] = computed_checksum[2],
                                            ![32] = computed_checksum[1]]]

set_checksum(m) ==
    LET computed_checksum == ToNeBytes(Checksum(Slice(m.slot_suffix, 0, ControlBodyLen)))
    IN  [m EXCEPT !.slot_suffix = [@ EXCEPT ![29] = computed_checksum[1],
                                            ![30] = computed_checksum[2],
                                            ![31] = computed_checksum[3],
                                            ![32] = computed_checksum[4]]]

\* faulty variant of as_slice: the checksum is not recomputed
as_slice_NoChecksum(m) == m

\* as_slice(&mut self): updates self and returns its bytes
as_slice(m) == set_checksum(m)

\* BootloaderControl::slot_suffix: the bytes before the first NUL, as a CStr
NulPositions(ctrl) == {k \in 0..(SuffixLen - 1) : At(ctrl, k) = 0}

\* faulty variant of slot_suffix: the whole field must be a string followed
\* by NUL padding only
slot_suffix_StrictPadding(ctrl) ==
    IF NulPositions(ctrl) # {}
           /\ \A k \in 0..(SuffixLen - 1) :
                  (\E j \in NulPositions(ctrl) : j < k) => At(ctrl, k) = 0
    THEN LET null_position == CHOOSE k \in NulPositions(ctrl) :
                                  \A j \in NulPositions(ctrl) : k <= j
         IN  Ok(Slice(ctrl, 0, null_position))
    ELSE Err("DataTooLong")

slot_suffix(ctrl) ==
    IF NulPositions(ctrl) # {}
    THEN LET null_position == CHOOSE k \in NulPositions(ctrl) :
                                  \A j \in NulPositions(ctrl) : k <= j
         IN  Ok(Slice(ctrl, 0, null_position))
    ELSE Err("DataTooLong")

\* BootloaderControl::set_slot_suffix(suffix): suffix is a byte string
set_slot_suffix(ctrl, suffix) ==
    IF Len(suffix) > 3
    THEN Err("DataTooLong")
    ELSE Ok([k \in 1..Len(ctrl) |->
                IF k <= Len(suffix) THEN suffix[k]
                ELSE IF k <= SuffixLen THEN 0
                ELSE ctrl[k]])

(***************************************************************************)
(* MISC partition I/O.  An I/O outcome is what the environment does to one *)
(* call: "ok"; "early_err", a failure of the netlink socket, of the device *)
(* materialisation or of open (all return before any byte is read or       *)
(* written); "write_err" with n, write_all failing after n bytes reached   *)
(* the device.                                                             *)
(***************************************************************************)
TornCuts == {2062}

IoOutcomes ==
    {[kind |-> "ok"], [kind |-> "early_err"]}
        \cup {[kind |-> "write_err", n |-> n] : n \in TornCuts}

\* the device after the first n bytes of image replaced those of old
TornImage(old, image, n) ==
    LET k == IF n <= LegacyOffset THEN 0
             ELSE IF n >= LegacyOffset + SlotSuffixRegionLen THEN SlotSuffixRegionLen
             ELSE n - LegacyOffset
    IN  [message        |-> IF n >= LegacyOffset \/ old.message = image.message
                            THEN image.message ELSE "torn",
         slot_suffix    |-> [j \in 1..SlotSuffixRegionLen |->
                                IF j <= k THEN image.slot_suffix[j] ELSE old.slot_suffix[j]],
         update_channel |-> old.update_channel,
         reserved       |-> old.reserved]

\* faulty variant of save_to_misc_partition: the slice written is taken from
\* a copy of self, which keeps its stale checksum
save_to_misc_partition_FromCopy(m, disk, io) ==
    IF io.kind = "early_err"
    THEN [ret |-> Err("IoError"), mem |-> m, disk |-> disk, image |-> NoImage, io |-> TRUE]
    ELSE LET bytes == as_slice(m)
         IN  IF io.kind = "write_err"
             THEN [ret |-> Err("IoError"), mem |-> m,
                   disk |-> TornImage(disk, bytes, io.n), image |-> bytes, io |-> TRUE]
             ELSE [ret |-> Ok("unit"), mem |-> m, disk |-> bytes, image |-> bytes,
                   io |-> TRUE]

\* save_to_misc_partition(&mut self) against device content disk:
\* [ret, mem, disk, image, io] = the result, self afterwards, the device
\* afterwards, the slice handed to write_all (NoImage if none was), and
\* whether the call reached its I/O
save_to_misc_partition(m, disk, io) ==
    IF io.kind = "early_err"
    THEN [ret |-> Err("IoError"), mem |-> m, disk |-> disk, image |-> NoImage, io |-> TRUE]
    ELSE LET bytes == as_slice(m)
         IN  IF io.kind = "write_err"
             THEN [ret |-> Err("IoError"), mem |-> bytes,
                   disk |-> TornImage(disk, bytes, io.n), image |-> bytes, io |-> TRUE]
             ELSE [ret |-> Ok("unit"), mem |-> bytes, disk |-> bytes, image |-> bytes,
                   io |-> TRUE]

\* create_from_misc_partition: read_exact_at(slice, 0) of 4096 bytes
create_from_misc_partition(disk, io) ==
    IF io.kind = "ok" THEN Ok(disk) ELSE Err("IoError")

(***************************************************************************)
(* BootControlImpl (bootcontrol.rs).  Queries take &self and are pure      *)
(* functions of the buffer; each returns the io::Result the method         *)
(* returns.  slot_info[i] with i >= 4 is an out-of-bounds array index: a   *)
(* panic.                                                                  *)
(***************************************************************************)
SlotInfoInBounds(i) == i < NumSlotInfo

\* faulty variant of number_of_slots: a count above two is InvalidData
number_of_slots_AtMostTwo(m) ==
    LET bl_control == get_bootloader_control(m)
    IN  IF bl_control.tag # "Ok" THEN Err("InvalidData")
        ELSE IF nb_slot(bl_control.val) > 2 THEN Err("InvalidData")
        ELSE Ok(nb_slot(bl_control.val))

number_of_slots(m) ==
    LET bl_control == get_bootloader_control(m)
    IN  IF bl_control.tag # "Ok" THEN Err("InvalidData")
        ELSE Ok(nb_slot(bl_control.val))

\* cl is the suffix found on /proc/cmdline
current_slot(cl) ==
    IF cl = "none" THEN Err("IoError")
    ELSE IF cl = "a" THEN Ok(0)
    ELSE IF cl = "b" THEN Ok(1)
    ELSE Err("InvalidData")

\* faulty variant of is_bootable: the index is not compared with nb_slot
is_bootable_AnySlot(m, slot_index) ==
    LET bl_control == get_bootloader_control(m)
    IN  IF bl_control.tag # "Ok" THEN Err("InvalidData")
        ELSE IF SlotInfoInBounds(slot_index)
        THEN Ok(tries_remaining(bl_control.val, slot_index) > 0)
        ELSE Err("Panic")

is_bootable(m, slot_index) ==
    LET bl_control == get_bootloader_control(m)
    IN  IF bl_control.tag # "Ok" THEN Err("InvalidData")
        ELSE IF slot_index < nb_slot(bl_control.val)
        THEN IF SlotInfoInBounds(slot_index)
             THEN Ok(tries_remaining(bl_control.val, slot_index) > 0)
             ELSE Err("Panic")
        ELSE Err("InvalidInput")

is_slot_successful(m, slot_index) ==
    LET bl_control == get_bootloader_control(m)
    IN  IF bl_control.tag # "Ok" THEN Err("InvalidData")
        ELSE IF slot_index < nb_slot(bl_control.val)
        THEN IF SlotInfoInBounds(slot_index)
             THEN Ok(successful_boot(bl_control.val, slot_index) = 1)
             ELSE Err("Panic")
        ELSE Err("InvalidInput")

\* CStr::to_str followed by the match on "a" / "b": a suffix that is not
\* UTF-8 and one that is neither string both end in InvalidData
active_slot(m) ==
    LET bl_control == get_bootloader_control(m)
    IN  IF bl_control.tag # "Ok" THEN Err("InvalidData")
        ELSE LET active == slot_suffix(bl_control.val)
             IN  IF active.tag # "Ok" THEN Err("InvalidData")
                 ELSE IF active.val = <<97>> THEN Ok(0)
                 ELSE IF active.val = <<98>> THEN Ok(1)
                 ELSE Err("InvalidData")

\* Mutating methods return what save_to_misc_partition returns; mem is
\* NoHandle once a panic unwound the caller.  Returned is a return before
\* save_to_misc_partition is reached.  Each method is its body applied to
\* the result of get_bootloader_control_mut.
Returned(r, m, disk) ==
    [ret |-> r, mem |-> m, disk |-> disk, image |-> NoImage, io |-> FALSE]

\* faulty variant of set_boot_successful: the active slot is marked
set_boot_successful_body_ActiveSlot(bl_control, m, disk, cl, io) ==
    LET cur == current_slot(cl)
        act == active_slot(m)
    IN  IF cur.tag # "Ok" THEN Returned(cur, m, disk)
        ELSE IF bl_control.tag # "Ok" THEN Returned(Err("InvalidData"), m, disk)
        ELSE save_to_misc_partition(
                 [m EXCEPT !.slot_suffix =
                     set_successful_boot(@, IF act.tag = "Ok" THEN act.val ELSE cur.val, 1)],
                 disk, io)

set_boot_successful_body(bl_control, m, disk, cl, io) ==
    LET cur == current_slot(cl)
    IN  IF cur.tag # "Ok" THEN Returned(cur, m, disk)
        ELSE IF bl_control.tag # "Ok" THEN Returned(Err("InvalidData"), m, disk)
        ELSE save_to_misc_partition(
                 [m EXCEPT !.slot_suffix = set_successful_boot(@, cur.val, 1)],
                 disk, io)

set_boot_successful(m, disk, cl, io) ==
    set_boot_successful_body(get_bootloader_control_mut(m), m, disk, cl, io)

set_active_slot_body(bl_control, m, disk, slot_index, io) ==
        IF bl_control.tag # "Ok" THEN Returned(Err("InvalidData"), m, disk)
        ELSE IF slot_index < nb_slot(bl_control.val)
        THEN IF slot_index \notin {0, 1}
             THEN Returned(Err("InvalidData"), m, disk)
             ELSE LET suffix == IF slot_index = 0 THEN <<97>> ELSE <<98>>
                      set == set_slot_suffix(bl_control.val, suffix)
                  IN  IF set.tag # "Ok" THEN Returned(Err("InvalidData"), m, disk)
                      ELSE save_to_misc_partition([m EXCEPT !.slot_suffix = set.val],
                                                  disk, io)
        ELSE Returned(Err("InvalidInput"), m, disk)

set_active_slot(m, disk, slot_index, io) ==
    set_active_slot_body(get_bootloader_control_mut(m), m, disk, slot_index, io)

set_slot_as_unbootable_body(bl_control, m, disk, slot_index, io) ==
        IF bl_control.tag # "Ok" THEN Returned(Err("InvalidData"), m, disk)
        ELSE IF slot_index < nb_slot(bl_control.val)
        THEN IF SlotInfoInBounds(slot_index)
             THEN save_to_misc_partition(
                      [m EXCEPT !.slot_suffix = set_tries_remaining(@, slot_index, 0)],
                      disk, io)
             ELSE Returned(Err("Panic"), NoHandle, disk)
        ELSE Returned(Err("InvalidInput"), m, disk)

set_slot_as_unbootable(m, disk, slot_index, io) ==
    set_slot_as_unbootable_body(get_bootloader_control_mut(m), m, disk, slot_index, io)

(***************************************************************************)
(* Initial MISC contents.                                                  *)
(***************************************************************************)
\* 0x42414342 in memory
MagicBytes == <<66, 67, 65, 66>>

\* a 32-byte control region: 4 suffix bytes, nb_slot, 8 slot_info bytes, and
\* either the right CRC or the CRC bytes xor-ed with damage
MkControl(suffix, nb, slots, damage) ==
    LET body == suffix \o MagicBytes \o <<1, nb, 0, 0>> \o slots
                    \o <<0, 0, 0, 0, 0, 0, 0, 0>>
        crc  == ToNeBytes(Checksum(body))
    IN  body \o <<Xor8(crc[1], damage), crc[2], crc[3], crc[4]>>

MkMessage(ctrl) ==
    [message |-> "recovery", slot_suffix |-> ctrl,
     update_channel |-> "channel", reserved |-> "padding"]

\* slot_info of the test fixture bolomessage.dat: priority 15 / tries 6,
\* priority 15 / tries 7, two empty slots
FixtureSlots == <<111, 0, 127, 0, 0, 0, 0, 0>>
\* slot 0 priority 15 / tries 7, slot 1 successful with no tries left,
\* slot 2 priority 15 / tries 2 and verity-corrupted, slot 3 priority 15 / tries 0
FullSlots == <<127, 0, 143, 0, 47, 1, 15, 0>>

SuffixA == <<97, 0, 0, 0>>
SuffixB == <<98, 0, 0, 0>>

\* the fixture's record (two slots, "a" active, CRC valid)
FixtureMessage == MkMessage(MkControl(SuffixA, 2, FixtureSlots, 0))

\* records of a device with up to two slots, one of them with a stored CRC
\* that does not match, and records announcing more slots
InitMessages ==
    {MkMessage(MkControl(SuffixA, nb, FixtureSlots, 0)) : nb \in 0..2}
    \cup {MkMessage(MkControl(SuffixB, 2, FixtureSlots, 0)),
          MkMessage(MkControl(SuffixA, 2, FixtureSlots, 1))}
    \cup {MkMessage(MkControl(SuffixA, nb, FullSlots, 0)) : nb \in 3..MaxNbSlot}

\* "c": a command line naming a suffix that is neither "a" nor "b"
CmdlineChoices == {"a", "b", "c"}

\* the parts of the state that a specification of another component leaves
\* untouched: no uevent replay, no boot control handle
EmIdle ==
    /\ devfs = <<>>
    /\ em_pc = 0
    /\ em_done = <<>>
    /\ errors = <<>>
    /\ proc_misc = "device_mapper"
    /\ em_result = "none"

MepIdle ==
    /\ EmIdle
    /\ fstab_entries = <<>>
    /\ mep_pc = "idle"
    /\ syscalls = <<>>
    /\ mep_result = "none"
    /\ entry_index = 0
    /\ count = 0
    /\ next_dm_index = 0
    /\ dm = FALSE

UeventIdle ==
    /\ sock = <<>>
    /\ frames = <<>>
    /\ cb = "none"
    /\ seen = <<>>
    /\ writes = <<>>
    /\ outcome = "none"
    /\ calls = 0
    /\ injected = 0

Init ==
    /\ UeventIdle
    /\ MepIdle
    /\ misc \in InitMessages
    /\ handle = NoHandle
    /\ cmdline \in CmdlineChoices
    /\ cmdline = "c" => misc = FixtureMessage
    /\ faults = 0
    /\ last = [op |-> "none", arg |-> -1, ret |-> NoCall, image |-> NoImage]

(***************************************************************************)
(* Actions: one per state-changing call.                                   *)
(***************************************************************************)
\* the environment injects at most MaxFaults failures in a run
Allowed(io) == io.kind = "ok" \/ faults < MaxFaults

Create ==
    /\ handle = NoHandle
    /\ \E io \in {o \in IoOutcomes : o.kind \in {"ok", "early_err"}} :
        /\ Allowed(io)
        /\ LET r == create_from_misc_partition(misc, io)
           IN  /\ handle' = IF r.tag = "Ok" THEN r.val ELSE NoHandle
               /\ last' = [op |-> "create", arg |-> -1, image |-> NoImage,
                           ret |-> IF r.tag = "Ok" THEN Ok("handle") ELSE r]
        /\ faults' = IF io.kind = "ok" THEN faults ELSE faults + 1
    /\ UNCHANGED <<misc, cmdline>>
    /\ UNCHANGED otherThanBcs

\* the effect of a mutating call that returned r under outcome io
Apply(op, arg, r, io) ==
    /\ Allowed(io)
    /\ handle' = r.mem
    /\ misc' = r.disk
    /\ last' = [op |-> op, arg |-> arg, ret |-> r.ret, image |-> r.image]
    /\ faults' = IF r.io /\ io.kind # "ok" THEN faults + 1 ELSE faults
    /\ UNCHANGED cmdline
    /\ UNCHANGED otherThanBcs

SetBootSuccessful ==
    /\ handle # NoHandle
    /\ \E bl_control \in {get_bootloader_control_mut(handle)} :
           \E io \in IoOutcomes :
               Apply("set_boot_successful", -1,
                     set_boot_successful_body(bl_control, handle, misc, cmdline, io), io)

SetActiveSlot ==
    /\ handle # NoHandle
    /\ \E bl_control \in {get_bootloader_control_mut(handle)} :
           \E i \in 0..MaxSlotIndex, io \in IoOutcomes :
               Apply("set_active_slot", i,
                     set_active_slot_body(bl_control, handle, misc, i, io), io)

SetSlotAsUnbootable ==
    /\ handle # NoHandle
    /\ \E bl_control \in {get_bootloader_control_mut(handle)} :
           \E i \in 0..MaxSlotIndex, io \in IoOutcomes :
               Apply("set_slot_as_unbootable", i,
                     set_slot_as_unbootable_body(bl_control, handle, misc, i, io), io)

Next ==
    \/ Create
    \/ SetBootSuccessful
    \/ SetActiveSlot
    \/ SetSlotAsUnbootable

Spec == Init /\ [][Next]_vars

(***************************************************************************)
(* The codec on its own: a byte buffer is viewed as a BootloaderMessageAB  *)
(* (TryFrom<&[u8]>), one bit of the 28-byte control body is flipped, the   *)
(* message is serialised again with as_slice, and the view is queried.     *)
(* The inputs add suffix fields that are not canonical to the MISC         *)
(* contents above.                                                         *)
(***************************************************************************)
OddSuffixes ==
    {<<97, 0, 98, 0>>,      \* "a", then a byte after the first NUL
     <<98, 0, 0, 7>>,       \* "b", then a byte after the first NUL
     <<97, 98, 0, 0>>,      \* "ab"
     <<97, 98, 99, 100>>,   \* no NUL at all
     <<0, 0, 0, 0>>,        \* the empty string
     <<255, 0, 0, 0>>}      \* not UTF-8

CodecInputs ==
    InitMessages
    \cup {MkMessage(MkControl(sfx, 2, FixtureSlots, 0)) : sfx \in OddSuffixes}
    \* two slots and five recovery tries left
    \cup {MkMessage(MkControl(SuffixB, 2 + 16 * 5, FullSlots, 0))}

\* <&BootloaderMessageAB>::try_from(data) for a slice of len bytes whose
\* first 4096 bytes are buf
try_from(buf, len) ==
    IF len < MessageABSize THEN Err("InsufficientBytes") ELSE Ok(buf)

\* bit k (0 = least significant bit of byte 0) of the control body inverted
FlipBitOf(m, k) ==
    [m EXCEPT !.slot_suffix[(k \div 8) + 1] = Xor8(@, Pow2(k % 8))]

InitCodec ==
    /\ UeventIdle
    /\ MepIdle
    /\ misc \in CodecInputs
    /\ handle = NoHandle
    /\ cmdline = "a"
    /\ faults = 0
    /\ last = [op |-> "none", arg |-> -1, ret |-> NoCall, image |-> NoImage]

TryFrom ==
    /\ last.op = "none"
    /\ \E len \in {MessageABSize - 1, MessageABSize} :
        LET r == try_from(misc, len)
        IN  /\ handle' = IF r.tag = "Ok" THEN r.val ELSE NoHandle
            /\ last' = [op |-> "try_from", arg |-> len, image |-> NoImage,
                        ret |-> IF r.tag = "Ok" THEN Ok("view") ELSE r]
    /\ UNCHANGED <<misc, cmdline, faults>>
    /\ UNCHANGED otherThanBcs

FlipBit ==
    /\ last.op = "try_from"
    /\ handle # NoHandle
    /\ \E k \in 0..(8 * ControlBodyLen - 1) :
        /\ handle' = FlipBitOf(handle, k)
        /\ last' = [op |-> "flip_bit", arg |-> k, ret |-> Ok("unit"), image |-> NoImage]
    /\ UNCHANGED <<misc, cmdline, faults>>
    /\ UNCHANGED otherThanBcs

AsSlice ==
    /\ last.op \in {"try_from", "flip_bit"}
    /\ handle # NoHandle
    /\ \E bytes \in {as_slice(handle)} :
        /\ handle' = bytes
        /\ last' = [op |-> "as_slice", arg |-> last.arg, ret |-> Ok("bytes"), image |-> bytes]
    /\ UNCHANGED <<misc, cmdline, faults>>
    /\ UNCHANGED otherThanBcs

\* The queries of BootControlImpl take &self: they change neither the buffer
\* nor the device, and the step records what they return.
Queried(op, arg, r) ==
    /\ last' = [op |-> op, arg |-> arg, ret |-> r, image |-> NoImage]
    /\ UNCHANGED <<misc, handle, cmdline, faults>>
    /\ UNCHANGED otherThanBcs

\* a query is made of a view of the input (one input has a stored CRC that
\* does not match) or of a message that as_slice re-serialised
Queryable ==
    /\ handle # NoHandle
    /\ last.op \in {"try_from", "as_slice"}

NumberOfSlots ==
    /\ Queryable
    /\ Queried("number_of_slots", -1, number_of_slots(handle))

ActiveSlot ==
    /\ Queryable
    /\ Queried("active_slot", -1, active_slot(handle))

IsBootable ==
    /\ Queryable
    /\ \E i \in 0..MaxSlotIndex : Queried("is_bootable", i, is_bootable(handle, i))

IsSlotSuccessful ==
    /\ Queryable
    /\ \E i \in 0..MaxSlotIndex :
           Queried("is_slot_successful", i, is_slot_successful(handle, i))

NextCodec ==
    \/ TryFrom
    \/ FlipBit
    \/ AsSlice
    \/ NumberOfSlots
    \/ ActiveSlot
    \/ IsBootable
    \/ IsSlotSuccessful

SpecCodec == InitCodec /\ [][NextCodec]_vars

(***************************************************************************)
(* Properties.                                                             *)
(***************************************************************************)
Mutators == {"set_boot_successful", "set_active_slot", "set_slot_as_unbootable"}
IoOk == [kind |-> "ok"]

\* bytes 28..32 of the region are the checksum of bytes 0..28
StoredCrcIsChecksum(m) ==
    Slice(m.slot_suffix, ControlBodyLen, SlotSuffixRegionLen)
        = ToNeBytes(Checksum(Slice(m.slot_suffix, 0, ControlBodyLen)))

\* C1: every buffer as_slice returns, and every image save_to_misc_partition
\* hands to write_all after any sequence of mutating calls, stores in bytes
\* 28..32 of the slot_suffix region the CRC-32/ISO-HDLC of bytes 0..28.
C1_SerializedCrcConsistent ==
    /\ handle # NoHandle => StoredCrcIsChecksum(as_slice(handle))
    /\ last.image # NoImage => StoredCrcIsChecksum(last.image)

\* a mutating call that changed the body wrote an image, which is on the device
C1_Witness ==
    /\ last.op = "set_slot_as_unbootable"
    /\ last.ret.tag = "Ok"
    /\ last.image # NoImage
    /\ misc = last.image
    /\ misc \notin InitMessages

\* C2: get_bootloader_control and get_bootloader_control_mut return
\* CrcFailure whenever the CRC-32/ISO-HDLC of slot_suffix[0..28] differs from
\* the value stored in slot_suffix[28..32] and the control view otherwise;
\* a CRC-valid message with any single bit of the control body flipped is
\* answered with CrcFailure.
C2_CrcDetection ==
    handle # NoHandle =>
        /\ get_bootloader_control(handle)
               = IF StoredCrcIsChecksum(handle) THEN Ok(handle.slot_suffix)
                 ELSE Err("CrcFailure")
        /\ get_bootloader_control_mut(handle) = get_bootloader_control(handle)
        /\ (last.op = "flip_bit" /\ StoredCrcIsChecksum(misc))
               => get_bootloader_control(handle) = Err("CrcFailure")

\* the most significant bit of the last body byte of a valid message was flipped
C2_Witness ==
    /\ last.op = "flip_bit"
    /\ last.arg = 8 * ControlBodyLen - 1
    /\ StoredCrcIsChecksum(misc)
    /\ handle = FlipBitOf(misc, last.arg)
    /\ get_bootloader_control(handle) = Err("CrcFailure")

\* C3: for every CRC-valid control record and every slot index i,
\* set_active_slot(i) succeeds if and only if i < nb_slot, whatever value the
\* 4-bit nb_slot field holds, and every other i is rejected with
\* InvalidInput (calls that end in an I/O error of the persistence aside).
C3_SetActiveSlotIffInRange ==
    [][(/\ last'.op = "set_active_slot"
        /\ handle # NoHandle
        /\ StoredCrcIsChecksum(handle)
        /\ last'.ret.tag # "IoError")
       => /\ (last'.ret.tag = "Ok") <=> (last'.arg < nb_slot(handle.slot_suffix))
          /\ (last'.arg >= nb_slot(handle.slot_suffix)) => last'.ret.tag = "InvalidInput"]_vars

\* set_active_slot(2) was called on a CRC-valid record of three slots
C3_Witness ==
    /\ last.op = "set_active_slot"
    /\ last.arg = 2
    /\ handle # NoHandle
    /\ StoredCrcIsChecksum(handle)
    /\ nb_slot(handle.slot_suffix) = 3
    /\ last.ret.tag = "InvalidData"

\* C4: whenever set_boot_successful, set_active_slot or
\* set_slot_as_unbootable returns Ok, the device holds the bytes of the
\* handle's buffer, and a handle created from the device then gives the same
\* answers to number_of_slots, active_slot, is_bootable and is_slot_successful.
C4_PersistedEqualsMemory ==
    (last.op \in Mutators /\ last.ret.tag = "Ok") =>
        /\ handle # NoHandle
        /\ misc = handle
        /\ LET fresh == create_from_misc_partition(misc, IoOk)
           IN  /\ fresh = Ok(handle)
               /\ number_of_slots(fresh.val) = number_of_slots(handle)
               /\ active_slot(fresh.val) = active_slot(handle)
               /\ \A i \in 0..MaxSlotIndex :
                      /\ is_bootable(fresh.val, i) = is_bootable(handle, i)
                      /\ is_slot_successful(fresh.val, i) = is_slot_successful(handle, i)

\* set_boot_successful returned Ok on a handle that had seen an I/O failure
C4_Witness ==
    /\ last.op = "set_boot_successful"
    /\ last.ret.tag = "Ok"
    /\ faults = 1
    /\ cmdline = "b"
    /\ misc = handle
    /\ misc \notin InitMessages
    /\ successful_boot(misc.slot_suffix, 1) = 1

\* C5: a set_boot_successful that returns Ok sets successful_boot of the slot
\* current_slot() names (from the kernel command line), leaves the
\* successful_boot bit of every other slot, the active one included, as it
\* was, and the record read back from the device passes the CRC comparison
\* and shows successful_boot = 1 for the current slot.
C5_MarksCurrentSlot ==
    [][(last'.op = "set_boot_successful" /\ last'.ret.tag = "Ok") =>
        LET cur     == current_slot(cmdline).val
            decoded == get_bootloader_control(
                           create_from_misc_partition(misc', IoOk).val)
        IN  /\ successful_boot(handle'.slot_suffix, cur) = 1
            /\ \A j \in (0..(NumSlotInfo - 1)) \ {cur} :
                   successful_boot(handle'.slot_suffix, j)
                       = successful_boot(handle.slot_suffix, j)
            /\ decoded.tag = "Ok"
            /\ successful_boot(decoded.val, cur) = 1]_vars

\* slot "b" is active, the kernel booted slot "a", and slot "a" alone is marked
C5_Witness ==
    /\ last.op = "set_boot_successful"
    /\ last.ret.tag = "Ok"
    /\ cmdline = "a"
    /\ active_slot(handle) = Ok(1)
    /\ successful_boot(handle.slot_suffix, 0) = 1
    /\ successful_boot(handle.slot_suffix, 1) = 0
    /\ misc = handle

\* C6: after set_active_slot(i) returned Ok, active_slot() returns i, and
\* still returns i after a following set_boot_successful or
\* set_slot_as_unbootable call on the handle.
C6_ActiveSlotSticks ==
    [][/\ (last'.op = "set_active_slot" /\ last'.ret.tag = "Ok")
           => active_slot(handle') = Ok(last'.arg)
       /\ (/\ last.op = "set_active_slot"
           /\ last.ret.tag = "Ok"
           /\ last'.op \in {"set_boot_successful", "set_slot_as_unbootable"}
           /\ handle' # NoHandle)
           => active_slot(handle') = Ok(last.arg)]_vars

\* set_active_slot(1) returned Ok, and after the next call, which failed in
\* its persistence, active_slot() no longer answers
C6_Witness ==
    /\ last.op = "set_boot_successful"
    /\ last.ret.tag = "IoError"
    /\ last.image = NoImage
    /\ handle # NoHandle
    /\ Slice(handle.slot_suffix, 0, SuffixLen) = SuffixB
    /\ Slice(misc.slot_suffix, 0, SuffixLen) = SuffixB
    /\ misc \notin InitMessages
    /\ active_slot(misc) = Ok(1)
    /\ active_slot(handle) = Err("InvalidData")

\* C7: after set_slot_as_unbootable(i) returned Ok, slot i has
\* tries_remaining = 0 and is_bootable(i) returns false, and it still
\* returns false after a following mutating call on the handle;
\* set_slot_as_unbootable(i) with i >= nb_slot returns InvalidInput.
C7_UnbootableSticks ==
    [][/\ (last'.op = "set_slot_as_unbootable" /\ last'.ret.tag = "Ok")
           => /\ tries_remaining(handle'.slot_suffix, last'.arg) = 0
              /\ is_bootable(handle', last'.arg) = Ok(FALSE)
       /\ (/\ last.op = "set_slot_as_unbootable"
           /\ last.ret.tag = "Ok"
           /\ last'.op \in Mutators
           /\ handle' # NoHandle)
           => is_bootable(handle', last.arg) = Ok(FALSE)
       /\ (/\ last'.op = "set_slot_as_unbootable"
           /\ handle # NoHandle
           /\ StoredCrcIsChecksum(handle)
           /\ last'.arg >= nb_slot(handle.slot_suffix))
           => last'.ret.tag = "InvalidInput"]_vars

\* slot 0 was made unbootable on the device, and after the next call, which
\* failed in its persistence, is_bootable(0) no longer answers
C7_Witness ==
    /\ last.op = "set_active_slot"
    /\ last.ret.tag = "IoError"
    /\ last.image = NoImage
    /\ handle # NoHandle
    /\ tries_remaining(handle.slot_suffix, 0) = 0
    /\ is_bootable(misc, 0) = Ok(FALSE)
    /\ misc \notin InitMessages
    /\ is_bootable(handle, 0) = Err("InvalidData")

\* C8: for a slot index i below 4 of a record that passes the CRC
\* comparison, is_bootable(i) and is_slot_successful(i) return InvalidInput
\* when i >= nb_slot, and otherwise is_bootable(i) is true iff
\* tries_remaining > 0 and is_slot_successful(i) is true iff
\* successful_boot = 1; a record that fails the comparison gives InvalidData.
\* With the fixture record (nb_slot = 2) is_bootable(0) is true and
\* is_bootable(2) is InvalidInput.
C8_QueriesWithinNbSlot ==
    (last.op \in {"is_bootable", "is_slot_successful"} /\ last.arg < NumSlotInfo) =>
        /\ last.ret =
               IF ~StoredCrcIsChecksum(handle) THEN Err("InvalidData")
               ELSE IF last.arg >= nb_slot(handle.slot_suffix) THEN Err("InvalidInput")
               ELSE IF last.op = "is_bootable"
               THEN Ok(tries_remaining(handle.slot_suffix, last.arg) > 0)
               ELSE Ok(successful_boot(handle.slot_suffix, last.arg) = 1)
        /\ (last.op = "is_bootable" /\ handle = FixtureMessage /\ last.arg = 0)
               => last.ret = Ok(TRUE)
        /\ (last.op = "is_bootable" /\ handle = FixtureMessage /\ last.arg = 2)
               => last.ret = Err("InvalidInput")

\* is_bootable(2) was asked of the fixture record
C8_Witness ==
    /\ last.op = "is_bootable"
    /\ last.arg = 2
    /\ handle = FixtureMessage
    /\ last.ret.tag = "InvalidInput"

\* C8 as stated: is_bootable(i) and is_slot_successful(i) return the bit of
\* slot i for every index i of the four-slot record, never an error.
C8_QueriesOnAllFourSlots ==
    (/\ last.op \in {"is_bootable", "is_slot_successful"}
     /\ last.arg < NumSlotInfo
     /\ StoredCrcIsChecksum(handle)) =>
        last.ret = IF last.op = "is_bootable"
                   THEN Ok(tries_remaining(handle.slot_suffix, last.arg) > 0)
                   ELSE Ok(successful_boot(handle.slot_suffix, last.arg) = 1)

\* C9: number_of_slots returns the value of the 4-bit nb_slot field, whatever
\* it is, for a record that passes the CRC comparison, and InvalidData for
\* one that does not.
C9_NumberOfSlotsIsField ==
    last.op = "number_of_slots" =>
        last.ret = IF StoredCrcIsChecksum(handle)
                   THEN Ok(At(handle.slot_suffix, Bitfield1Offset) % 16)
                   ELSE Err("InvalidData")

\* number_of_slots returned more than two
C9_Witness ==
    /\ last.op = "number_of_slots"
    /\ last.ret.tag = "Ok"
    /\ last.ret.val > 2
    /\ StoredCrcIsChecksum(handle)

\* C9 as stated: number_of_slots never returns more than 2, and fails with
\* InvalidData for a CRC-valid record whose nb_slot is outside {0, 1, 2}.
C9_NumberOfSlotsAtMostTwo ==
    last.op = "number_of_slots" =>
        /\ last.ret.tag = "Ok" => last.ret.val <= 2
        /\ (StoredCrcIsChecksum(handle) /\ nb_slot(handle.slot_suffix) > 2)
               => last.ret = Err("InvalidData")

\* C10: for a record that passes the CRC comparison, active_slot() returns 0
\* exactly when the suffix field starts with 'a', NUL and 1 exactly when it
\* starts with 'b', NUL, whatever the bytes after the first NUL are; every
\* other field, one without a NUL included, yields InvalidData, as does a
\* record that fails the comparison.
C10_ActiveSlotUpToFirstNul ==
    last.op = "active_slot" =>
        last.ret = IF ~StoredCrcIsChecksum(handle) THEN Err("InvalidData")
                   ELSE IF At(handle.slot_suffix, 0) = 97 /\ At(handle.slot_suffix, 1) = 0
                   THEN Ok(0)
                   ELSE IF At(handle.slot_suffix, 0) = 98 /\ At(handle.slot_suffix, 1) = 0
                   THEN Ok(1)
                   ELSE Err("InvalidData")

\* active_slot() was asked of a CRC-valid record whose field is 'a', NUL, 'b', NUL
C10_Witness ==
    /\ last.op = "active_slot"
    /\ StoredCrcIsChecksum(handle)
    /\ Slice(handle.slot_suffix, 0, SuffixLen) = <<97, 0, 98, 0>>
    /\ last.ret = Ok(0)

\* C10 as stated: active_slot() returns 0 only for the field 'a', NUL, NUL,
\* NUL and 1 only for 'b', NUL, NUL, NUL; every other field yields InvalidData.
C10_ActiveSlotExactField ==
    last.op = "active_slot" =>
        LET field == Slice(handle.slot_suffix, 0, SuffixLen)
        IN  /\ last.ret.tag = "Ok" => field = (IF last.ret.val = 0 THEN SuffixA ELSE SuffixB)
            /\ field \notin {SuffixA, SuffixB} => last.ret = Err("InvalidData")

(***************************************************************************)
(* Part 2.  Netlink uevent listener and sysfs uevent replayer              *)
(* (uevent/mod.rs).                                                        *)
(*                                                                         *)
(* A netlink message is [creds, addr, payload, src]: the uids of its       *)
(* SCM_CREDENTIALS control messages, its source address, its payload and,  *)
(* for the statements about provenance only, what caused it (the number of *)
(* the regenerate call whose "add" write made the kernel emit it, or 0 for *)
(* any other cause).  A payload is the sequence of its NUL-delimited       *)
(* segments, each segment the sequence of its '='-delimited tokens.  An    *)
(* Option is a sequence of length at most one.                             *)
(***************************************************************************)
\* bounds of the uevent specifications
\* top-level regenerate_uevent_for_dir calls made on one socket
MaxCalls == 2
\* messages that other senders put on the socket
MaxForeign == 1

\* dir.components().count() > 5
MaxPathComponents == 5

None == <<>>
Some(v) == <<v>>

\* decimal strings and the numbers they parse to
Numerals ==
    [t \in {"0", "1", "6", "252"} |->
        IF t = "0" THEN 0 ELSE IF t = "1" THEN 1 ELSE IF t = "6" THEN 6 ELSE 252]

\* str::parse::<u64>().ok() and str::parse::<i32>().unwrap_or(0)
ParseOk(t) == IF t \in DOMAIN Numerals THEN Some(Numerals[t]) ELSE None
ParseOrZero(t) == IF t \in DOMAIN Numerals THEN Numerals[t] ELSE 0

\* bytes of "a-zA-Z0-9_-."
AllowedBytes == (97..122) \cup (65..90) \cup (48..57) \cup {95, 45, 46}

\* faulty variant of sanitize_name: bytes that are not allowed are left out
sanitize_name_Drops(input) ==
    LET IsAllowed(b) == b \in AllowedBytes
    IN  SelectSeq(input, IsAllowed)

sanitize_name(input) ==
    [k \in 1..Len(input) |-> IF input[k] \in AllowedBytes THEN input[k] ELSE 95]

EmptyUEvent ==
    [action |-> "Unknown", dev_path |-> "", maybe_subsystem |-> None,
     maybe_firmware |-> None, maybe_major |-> None, maybe_minor |-> None,
     maybe_devname |-> None, maybe_partitionnum |-> None,
     maybe_partitionname |-> None, maybe_modalias |-> None]

\* String::from_utf8_lossy(value).to_string(): bytes that are no UTF-8 are
\* replaced by U+FFFD; Utf8Lossy lists the values examined that hold such bytes
Utf8Lossy == [t \in {"vd<FF>6"} |-> "vd<U+FFFD>6"]
from_utf8_lossy(value) == IF value \in DOMAIN Utf8Lossy THEN Utf8Lossy[value] ELSE value

\* the value of uevent.action for the value of an ACTION line
ActionOf(value) ==
    IF value = "add" THEN "Add"
    ELSE IF value = "remove" THEN "Remove"
    ELSE IF value = "change" THEN "Change"
    ELSE "Unknown"

\* one iteration of the loop over the lines of UEvent::try_from; the value
\* of a PARTNAME line is the sequence of its bytes
ParseLine(uevent, tokens) ==
    IF Len(tokens) # 2 THEN uevent
    ELSE LET key == tokens[1]
             value == tokens[2]
         IN  IF key = "ACTION" THEN [uevent EXCEPT !.action = ActionOf(value)]
             ELSE IF key = "DEVPATH"
             THEN [uevent EXCEPT !.dev_path = from_utf8_lossy(value)]
             ELSE IF key = "SUBSYSTEM"
             THEN [uevent EXCEPT !.maybe_subsystem = Some(from_utf8_lossy(value))]
             ELSE IF key = "MAJOR"
             THEN [uevent EXCEPT !.maybe_major = ParseOk(from_utf8_lossy(value))]
             ELSE IF key = "MINOR"
             THEN [uevent EXCEPT !.maybe_minor = ParseOk(from_utf8_lossy(value))]
             ELSE IF key = "DEVNAME"
             THEN [uevent EXCEPT !.maybe_devname = Some(from_utf8_lossy(value))]
             ELSE IF key = "FIRMWARE"
             THEN [uevent EXCEPT !.maybe_firmware = Some(from_utf8_lossy(value))]
             ELSE IF key = "PARTN"
             THEN [uevent EXCEPT !.maybe_partitionnum =
                      Some(ParseOrZero(from_utf8_lossy(value)))]
             ELSE IF key = "PARTNAME"
             THEN [uevent EXCEPT !.maybe_partitionname = Some(sanitize_name(value))]
             ELSE IF key = "MODALIAS"
             THEN [uevent EXCEPT !.maybe_modalias = Some(from_utf8_lossy(value))]
             ELSE uevent

RECURSIVE ParseLines(_, _, _)
ParseLines(uevent, lines, k) ==
    IF k > Len(lines) THEN uevent
    ELSE ParseLines(ParseLine(uevent, lines[k]), lines, k + 1)

\* faulty variant of uevent_try_from: the first segment is parsed as well
uevent_try_from_NoSkip(payload) ==
    LET uevent == ParseLines(EmptyUEvent, payload, 1)
    IN  IF uevent.action # "Unknown" THEN Ok(uevent) ELSE Err("Unable to parse uevent")

\* UEvent::try_from(buf): the first segment is skipped
uevent_try_from(payload) ==
    LET uevent == ParseLines(EmptyUEvent, payload, 2)
    IN  IF uevent.action # "Unknown" THEN Ok(uevent) ELSE Err("Unable to parse uevent")

\* the loop of read_uevent over msg.cmsgs(): [uid, denied]
RECURSIVE ScanCreds(_, _, _)
ScanCreds(creds, k, uid) ==
    IF k > Len(creds) THEN [uid |-> uid, denied |-> FALSE]
    ELSE IF creds[k] # 0 THEN [uid |-> Some(creds[k]), denied |-> TRUE]
    ELSE ScanCreds(creds, k + 1, Some(creds[k]))

\* faulty variant of read_uevent: the uid is examined after the loop over the
\* control messages, so only the last credential counts
read_uevent_LastCredential(rx) ==
    IF rx.tag # "Ok" THEN Err("Interrupted")
    ELSE LET msg == rx.val
         IN  IF msg.creds = <<>> THEN Err("PermissionDenied")
             ELSE IF msg.creds[Len(msg.creds)] # 0 THEN Err("PermissionDenied")
             ELSE IF msg.addr.family = "netlink"
             THEN IF msg.addr.groups = 0 \/ msg.addr.pid # 0
                  THEN Err("PermissionDenied")
                  ELSE LET e == uevent_try_from(msg.payload)
                       IN  IF e.tag = "Ok" THEN e ELSE Err("InvalidData")
             ELSE Err("PermissionDenied")

\* read_uevent(socket), rx being what recvmsg returned: Ok(message) or an error
read_uevent(rx) ==
    IF rx.tag # "Ok" THEN Err("Interrupted")
    ELSE LET msg == rx.val
             scan == ScanCreds(msg.creds, 1, None)
         IN  IF scan.denied THEN Err("PermissionDenied")
             ELSE IF scan.uid = None THEN Err("PermissionDenied")
             ELSE IF msg.addr.family = "netlink"
             THEN IF msg.addr.groups = 0 \/ msg.addr.pid # 0
                  THEN Err("PermissionDenied")
                  ELSE LET e == uevent_try_from(msg.payload)
                       IN  IF e.tag = "Ok" THEN e ELSE Err("InvalidData")
             ELSE Err("PermissionDenied")

(***************************************************************************)
(* Messages.                                                               *)
(***************************************************************************)
KernelAddr == [family |-> "netlink", groups |-> 1, pid |-> 0]

\* the payload of the kernel's event for a block device
Payload(action, name, minor) ==
    << <<action \o "@/devices/" \o name>>,
       <<"ACTION", action>>,
       <<"DEVPATH", "/devices/" \o name>>,
       <<"SUBSYSTEM", "block">>,
       <<"MAJOR", "252">>,
       <<"MINOR", minor>>,
       <<"DEVNAME", name>> >>

\* a payload with no ACTION line, and one line that is not KEY=VALUE
UnparsablePayload == << <<"libudev">>, <<"DEVNAME", "vda6">>, <<"A", "B", "C">>, <<"">> >>

CredChoices == {<<>>, <<0>>, <<1000>>, <<0, 1000>>, <<1000, 0>>}
AddrChoices ==
    {[family |-> "netlink", groups |-> g, pid |-> p] : g \in {0, 1}, p \in {0, 4711}}
        \cup {[family |-> "unix", groups |-> 0, pid |-> 0],
              [family |-> "none", groups |-> 0, pid |-> 0]}
PayloadChoices ==
    {Payload("add", "vda6", "6"), Payload("change", "vda1", "1"), UnparsablePayload}

NetlinkMessages ==
    {[creds |-> c, addr |-> a, payload |-> p, src |-> 0] :
        c \in CredChoices, a \in AddrChoices, p \in PayloadChoices}

(***************************************************************************)
(* The listener on its own: one message is queued, recvmsg either returns  *)
(* it or fails with EAGAIN / EINTR.                                        *)
(***************************************************************************)
InitNetlink ==
    /\ misc = NoImage
    /\ handle = NoHandle
    /\ cmdline = "a"
    /\ faults = 0
    /\ last = [op |-> "none", arg |-> -1, ret |-> NoCall, image |-> NoImage]
    /\ MepIdle
    /\ sock \in {<<m>> : m \in NetlinkMessages}
    /\ frames = <<>>
    /\ cb = "none"
    /\ seen = <<>>
    /\ writes = <<>>
    /\ outcome = "none"
    /\ calls = 0
    /\ injected = 0

ReadUevent ==
    /\ sock # <<>>
    /\ \E rx \in {Ok(Head(sock)), Err("EAGAIN")} :
        /\ last' = [op |-> "read_uevent", arg |-> rx, ret |-> read_uevent(rx),
                    image |-> NoImage]
        /\ sock' = IF rx.tag = "Ok" THEN Tail(sock) ELSE sock
    /\ UNCHANGED <<frames, cb, seen, writes, outcome, calls, injected>>
    /\ UNCHANGED otherThanUevent

NextNetlink == ReadUevent

SpecNetlink == InitNetlink /\ [][NextNetlink]_vars

(***************************************************************************)
(* The sysfs replayer.  SysfsTree is the directory tree under /sys/block:  *)
(* comps is Path::components().count() of the path, uevent tells whether   *)
(* <path>/uevent is a file ("ok": it can be opened for writing and         *)
(* written, "denied": it is a file that cannot, "none": there is none),    *)
(* dev whether <path>/dev is a file, kids the entries in read order.       *)
(* Writing "add" into a device's uevent file makes the kernel emit that    *)
(* device's add event before the write returns.                            *)
(***************************************************************************)
SysfsTree ==
    << [path |-> "/sys/block", comps |-> 3, is_dir |-> TRUE, uevent |-> "none",
        dev |-> FALSE, kids |-> <<2>>, name |-> "block", minor |-> "0"],
       [path |-> "/sys/block/vda", comps |-> 4, is_dir |-> TRUE, uevent |-> "ok",
        dev |-> TRUE, kids |-> <<3, 5, 6, 7>>, name |-> "vda", minor |-> "0"],
       [path |-> "/sys/block/vda/vda1", comps |-> 5, is_dir |-> TRUE, uevent |-> "ok",
        dev |-> TRUE, kids |-> <<4>>, name |-> "vda1", minor |-> "1"],
       [path |-> "/sys/block/vda/vda1/sub", comps |-> 6, is_dir |-> TRUE, uevent |-> "ok",
        dev |-> TRUE, kids |-> <<>>, name |-> "sub", minor |-> "0"],
       [path |-> "/sys/block/vda/queue", comps |-> 5, is_dir |-> TRUE, uevent |-> "none",
        dev |-> FALSE, kids |-> <<>>, name |-> "queue", minor |-> "0"],
       [path |-> "/sys/block/vda/vda6", comps |-> 5, is_dir |-> TRUE, uevent |-> "ok",
        dev |-> TRUE, kids |-> <<>>, name |-> "vda6", minor |-> "6"],
       [path |-> "/sys/block/vda/size", comps |-> 5, is_dir |-> FALSE, uevent |-> "none",
        dev |-> FALSE, kids |-> <<>>, name |-> "size", minor |-> "0"] >>

\* WalkDir::new(dir).into_iter(): dir, then its entries depth first
RECURSIVE WalkDir(_)
RECURSIVE WalkKids(_, _)
WalkDir(d) == <<d>> \o WalkKids(SysfsTree[d].kids, 1)
WalkKids(kids, k) ==
    IF k > Len(kids) THEN <<>> ELSE WalkDir(kids[k]) \o WalkKids(kids, k + 1)

\* the filter_map of the loop: not a file, has uevent and dev files, is not dir
WalkEntries(dir) ==
    SelectSeq(WalkDir(dir),
              LAMBDA d : /\ SysfsTree[d].is_dir
                         /\ SysfsTree[d].uevent # "none"
                         /\ SysfsTree[d].dev
                         /\ d # dir)

\* the message the kernel multicasts for an "add" written to d's uevent file
\* during call number n
KernelAdd(d, n) ==
    [creds |-> <<0>>, addr |-> KernelAddr,
     payload |-> Payload("add", SysfsTree[d].name, SysfsTree[d].minor), src |-> n]

\* messages that reach the socket without a write of the running call: a
\* kernel event for another reason, and a message from a local process
ForeignMessages ==
    {[creds |-> <<0>>, addr |-> KernelAddr, payload |-> Payload("change", "vda6", "6"),
      src |-> 0],
     [creds |-> <<1000>>, addr |-> [family |-> "netlink", groups |-> 0, pid |-> 4711],
      payload |-> Payload("add", "vda6", "6"), src |-> 0]}

\* the predicate: stops on the event whose devname is cb, "none" never stops
Predicate(stop, uevent) ==
    IF uevent.maybe_devname = Some(stop) THEN "Stop" ELSE "Continue"

Frame(d) == [dir |-> d, pc |-> "enter", todo |-> <<>>, got |-> "none"]
Top == frames[Len(frames)]

\* frames after the running call returned v to its caller
Returned_frames(v) ==
    IF Len(frames) = 1 THEN <<>>
    ELSE [SubSeq(frames, 1, Len(frames) - 1) EXCEPT
             ![Len(frames) - 1].pc = "returned", ![Len(frames) - 1].got = v]

Return(v) ==
    /\ frames' = Returned_frames(v)
    /\ outcome' = IF Len(frames) = 1 THEN v ELSE outcome

Goto(pc, todo) ==
    /\ frames' = [frames EXCEPT ![Len(frames)].pc = pc, ![Len(frames)].todo = todo]
    /\ UNCHANGED outcome

Did(op, arg, r) == last' = [op |-> op, arg |-> arg, ret |-> r, image |-> NoImage]

\* the directory a step of the replayer works on
AtDir(d) == [dir |-> d]

\* Ok(()) of a write, Ok(count) of poll, Ok(WalkAction) of a return
Written == [tag |-> "Ok"]
Polled(n) == [tag |-> "Ok", count |-> n]
Walk(action) == [tag |-> "Ok", action |-> action]

\* a caller (ensure_mount_device_is_created, create_dm_device_entry) calls
\* regenerate_uevent_for_dir on the shared socket
RegenCall ==
    /\ frames = <<>>
    /\ calls < MaxCalls
    /\ \E d \in {1, 2, 3, 4, 7}, stop \in {"vda1", "vda6", "none"} :
        /\ frames' = <<Frame(d)>>
        /\ cb' = stop
        /\ Did("regenerate_uevent_for_dir", AtDir(d), NoCall)
    /\ seen' = <<>>
    /\ writes' = <<>>
    /\ outcome' = "none"
    /\ calls' = calls + 1
    /\ UNCHANGED <<sock, injected>>
    /\ UNCHANGED otherThanUevent

\* faulty variant of the guard: the depth of the path is not examined
NotDirOrTooDeep_NoDepth(dir) == ~dir.is_dir

\* !dir.is_dir() || dir.components().count() > 5
NotDirOrTooDeep(dir) == ~dir.is_dir \/ dir.comps > MaxPathComponents

\* the guard, then the open and write of dir/uevent
RegenEnter ==
    /\ frames # <<>>
    /\ Top.pc = "enter"
    /\ LET dir == SysfsTree[Top.dir]
       IN  IF NotDirOrTooDeep(dir)
           THEN /\ Return("Continue")
                /\ Did("return", AtDir(Top.dir), Walk("Continue"))
                /\ UNCHANGED <<sock, writes>>
           ELSE IF dir.uevent = "ok"
           THEN /\ writes' = Append(writes, Top.dir)
                /\ sock' = Append(sock, KernelAdd(Top.dir, calls))
                /\ Goto("drain", <<>>)
                /\ Did("write_add", AtDir(Top.dir), Written)
           ELSE /\ Goto("walk", WalkEntries(Top.dir))
                /\ Did("open_failed", AtDir(Top.dir), Err("IoError"))
                /\ UNCHANGED <<sock, writes>>
    /\ UNCHANGED <<cb, seen, calls, injected>>
    /\ UNCHANGED otherThanUevent

\* one iteration of the drain loop: poll, then read_uevent and the predicate
RegenDrain ==
    /\ frames # <<>>
    /\ Top.pc = "drain"
    /\ IF sock = <<>>
       THEN /\ Goto("walk", WalkEntries(Top.dir))
            /\ Did("poll", AtDir(Top.dir), Polled(0))
            /\ UNCHANGED <<sock, seen>>
       ELSE LET rx == Ok(Head(sock))
                r  == read_uevent(rx)
            IN  /\ sock' = Tail(sock)
                /\ Did("read_uevent", rx, r)
                /\ IF r.tag = "Ok"
                   THEN /\ seen' = Append(seen, [uevent |-> r.val, src |-> Head(sock).src])
                        /\ IF Predicate(cb, r.val) = "Stop"
                           THEN Return("Stop")
                           ELSE UNCHANGED <<frames, outcome>>
                   ELSE UNCHANGED <<seen, frames, outcome>>
    /\ UNCHANGED <<cb, writes, calls, injected>>
    /\ UNCHANGED otherThanUevent

\* the loop over the walk: the next entry is recursed into, or the call returns
RegenWalk ==
    /\ frames # <<>>
    /\ Top.pc = "walk"
    /\ IF Top.todo = <<>>
       THEN /\ Return("Continue")
            /\ Did("return", AtDir(Top.dir), Walk("Continue"))
       ELSE /\ frames' = Append([frames EXCEPT ![Len(frames)].pc = "await",
                                               ![Len(frames)].todo = Tail(Top.todo)],
                                Frame(Head(Top.todo)))
            /\ Did("recurse", AtDir(Head(Top.todo)), NoCall)
            /\ UNCHANGED outcome
    /\ UNCHANGED <<sock, cb, seen, writes, calls, injected>>
    /\ UNCHANGED otherThanUevent

\* faulty variant of the loop over the walk: what the recursive call returned
\* is not examined
RegenReturned_IgnoresStop ==
    /\ frames # <<>>
    /\ Top.pc = "returned"
    /\ Goto("walk", Top.todo)
    /\ Did("resume", AtDir(Top.dir), NoCall)
    /\ UNCHANGED <<sock, cb, seen, writes, calls, injected>>
    /\ UNCHANGED otherThanUevent

\* the recursive call returned: Stop is passed on, Continue resumes the loop
RegenReturned ==
    /\ frames # <<>>
    /\ Top.pc = "returned"
    /\ IF Top.got = "Stop"
       THEN /\ Return("Stop")
            /\ Did("return", AtDir(Top.dir), Walk("Stop"))
       ELSE /\ Goto("walk", Top.todo)
            /\ Did("resume", AtDir(Top.dir), NoCall)
    /\ UNCHANGED <<sock, cb, seen, writes, calls, injected>>
    /\ UNCHANGED otherThanUevent

\* a message that no write of the replayer caused arrives on the shared socket
ForeignMessage ==
    /\ injected < MaxForeign
    /\ \E m \in ForeignMessages :
        /\ sock' = Append(sock, m)
        /\ Did("foreign", m, NoCall)
    /\ injected' = injected + 1
    /\ UNCHANGED <<frames, cb, seen, writes, outcome, calls>>
    /\ UNCHANGED otherThanUevent

BcsIdle ==
    /\ misc = NoImage
    /\ handle = NoHandle
    /\ cmdline = "a"
    /\ faults = 0

InitUevent ==
    /\ BcsIdle
    /\ UeventIdle
    /\ MepIdle
    /\ last = [op |-> "none", arg |-> AtDir(0), ret |-> NoCall, image |-> NoImage]

NextUevent ==
    \/ RegenCall
    \/ RegenEnter
    \/ RegenDrain
    \/ RegenWalk
    \/ RegenReturned
    \/ ForeignMessage

SpecUevent == InitUevent /\ [][NextUevent]_vars

\* The replayer is a sequential program that keeps running once called; the
\* callers and the other senders are under no obligation.
RegenStep == RegenEnter \/ RegenDrain \/ RegenWalk \/ RegenReturned

SpecUeventFair == SpecUevent /\ WF_vars(RegenStep)

\* a Stop is on its way to the caller of the top-level call, or has reached it
Stopping ==
    \/ frames # <<>> /\ Top.pc = "returned" /\ Top.got = "Stop"
    \/ frames = <<>> /\ outcome = "Stop"

\* C11: read_uevent returns a parsed event only for a message whose
\* SCM credentials are present and all have uid 0 and whose source address is
\* a netlink address with groups # 0 and pid = 0; a message with a credential
\* of non-zero uid, with no credentials, or with source groups = 0 or
\* pid # 0 returns PermissionDenied whatever its payload.
C11_CredentialFilter ==
    (last.op = "read_uevent" /\ last.arg.tag = "Ok") =>
        LET msg == last.arg.val
            nonroot == \E k \in 1..Len(msg.creds) : msg.creds[k] # 0
            badaddr == /\ msg.addr.family = "netlink"
                       /\ (msg.addr.groups = 0 \/ msg.addr.pid # 0)
        IN  /\ last.ret.tag = "Ok" =>
                   /\ msg.creds # <<>>
                   /\ ~nonroot
                   /\ msg.addr.family = "netlink"
                   /\ msg.addr.groups # 0
                   /\ msg.addr.pid = 0
            /\ (nonroot \/ msg.creds = <<>> \/ badaddr)
                   => last.ret = Err("PermissionDenied")

\* a well-formed kernel payload sent with a root credential followed by a
\* non-root one was refused
C11_Witness ==
    /\ last.op = "read_uevent"
    /\ last.arg.tag = "Ok"
    /\ last.arg.val.creds = <<0, 1000>>
    /\ last.arg.val.addr = KernelAddr
    /\ last.arg.val.payload = Payload("add", "vda6", "6")
    /\ last.ret = Err("PermissionDenied")
    /\ sock = <<>>

\* C12: once the predicate returns Stop for an event, regenerate_uevent_for_dir
\* returns Stop from every enclosing recursion level, the predicate is
\* invoked on no further event and no further "add" is written during that
\* call; a predicate that stops on a devname observes no event after the
\* event with that devname.
C12_StopPropagates ==
    [][/\ (/\ calls' = calls
           /\ seen' # seen
           /\ Predicate(cb, seen'[Len(seen')].uevent) = "Stop") => Stopping'
       /\ (Stopping /\ calls' = calls) =>
              /\ Stopping'
              /\ seen' = seen
              /\ writes' = writes
       /\ \A k \in 1..(Len(seen') - 1) : Predicate(cb', seen'[k].uevent) = "Continue"]_vars

\* the call on /sys/block with a predicate stopping on vda6 returned Stop
\* after the events of vda, vda1 and vda6
C12_Witness ==
    /\ frames = <<>>
    /\ outcome = "Stop"
    /\ cb = "vda6"
    /\ writes = <<2, 3, 6>>
    /\ Len(seen) = 3
    /\ seen[3].uevent.maybe_devname = Some("vda6")
    /\ injected = 0

\* C13: within one regenerate_uevent_for_dir call the predicate is invoked on
\* exactly the events that the call's own "add" writes generated: on no event
\* queued before the call or coming from another source, and, when the call
\* has returned Continue, on one event per write, in write order.
C13_OnlyOwnEvents ==
    /\ \A k \in 1..Len(seen) : seen[k].src = calls
    /\ (frames = <<>> /\ outcome = "Continue") =>
           /\ Len(seen) = Len(writes)
           /\ \A k \in 1..Len(seen) :
                  seen[k].uevent.maybe_devname = Some(SysfsTree[writes[k]].name)

\* in the second call on the socket the predicate has seen an event that no
\* write of that call caused, while the event of the call's own write is
\* still queued
C13_Witness ==
    /\ calls = 2
    /\ writes = <<2>>
    /\ Len(seen) = 1
    /\ seen[1].src = 0
    /\ seen[1].uevent.action = "Change"
    /\ Len(sock) = 1
    /\ Head(sock).src = 2

\* C14: regenerate_uevent_for_dir returns Continue with no side effect for a
\* path that is not a directory or has more than 5 components, "add" is
\* never written into the uevent file of a directory of more than 5
\* components, and every call terminates when finitely many messages are
\* queued.
C14_DepthBoundAndTermination ==
    /\ [](\A k \in 1..Len(writes) :
              /\ SysfsTree[writes[k]].is_dir
              /\ SysfsTree[writes[k]].comps <= 5)
    /\ [][(/\ frames # <<>>
           /\ Top.pc = "enter"
           /\ (~SysfsTree[Top.dir].is_dir \/ SysfsTree[Top.dir].comps > 5)
           /\ last'.op # "foreign")
          => /\ last' = [op |-> "return", arg |-> AtDir(Top.dir), ret |-> Walk("Continue"),
                         image |-> NoImage]
             /\ frames' = Returned_frames("Continue")
             /\ UNCHANGED <<sock, seen, writes>>]_vars
    /\ (frames # <<>>) ~> (frames = <<>>)

\* the recursion reached the 6-component directory under vda1 and came back
\* with Continue, nothing written for it
C14_Witness ==
    /\ last = [op |-> "return", arg |-> AtDir(4), ret |-> Walk("Continue"), image |-> NoImage]
    /\ frames # <<>>
    /\ Top.dir = 3
    /\ Top.pc = "returned"
    /\ Top.got = "Continue"
    /\ writes = <<2, 3>>

(***************************************************************************)
(* Part 3.  mount_early_partitions as a sequential program.  An fstab      *)
(* entry is [mountpoint, fs_manager_flags]; what the function does is      *)
(* recorded in syscalls, one record [op, entry, target, ok] per operation, *)
(* entry being the index of the fstab entry concerned (0 for none).  The   *)
(* outcome of every operation of the environment (device discovery,        *)
(* device-mapper ioctls, mount, chdir, chroot) is chosen freely.           *)
(***************************************************************************)

\* longest fstab examined
MaxEntries == 2

\* most operations of the environment that fail in one run, the attempts on
\* the root device not counted
MaxFailures == 1

\* let mut count = 5
RootAttempts == 5

NewRoot == "/new_root"

is_first_stage_mount(entry) == "first_stage_mount" \in entry.fs_manager_flags
is_verity_protected(entry) == "verity" \in entry.fs_manager_flags

should_prepare_verity(entries) ==
    \E i \in 1..Len(entries) :
        is_verity_protected(entries[i]) /\ is_first_stage_mount(entries[i])

\* fstab_entries.iter_mut().find(|e| e.mountpoint == root_cmp): index or 0
FindRoot(entries) ==
    IF \E i \in 1..Len(entries) : entries[i].mountpoint = "/"
    THEN CHOOSE i \in 1..Len(entries) :
             /\ entries[i].mountpoint = "/"
             /\ \A j \in 1..(i - 1) : entries[j].mountpoint # "/"
    ELSE 0

\* the steps of Dm::create_dm_device that can fail, in program order
DmSteps ==
    <<"canonicalize", "canonicalize_verity", "dm_name", "device_create", "get_entry",
      "table_load", "device_suspend">>

DmFailures == {DmSteps[k] : k \in 1..Len(DmSteps)} \cup {"none"}

\* Dm::create_dm_device, given the step that fails: the first five steps
\* return early, the results of table_load and device_suspend are dropped
Dm_create_dm_device(failed) ==
    IF failed \in {"canonicalize", "canonicalize_verity"} THEN "InvalidArgument"
    ELSE IF failed \in {"dm_name", "device_create", "get_entry"} THEN "DMError"
    ELSE "Ok"

\* create_dm_device of early_partitions.rs: any error becomes PermissionDenied
create_dm_device(failed) ==
    IF Dm_create_dm_device(failed) = "Ok" THEN "Ok" ELSE "PermissionDenied"

Sys(op, entry, target, ok) == [op |-> op, entry |-> entry, target |-> target, ok |-> ok]

\* faulty variant of DmName: every device gets the same name
DmName_Fixed(n) == [k \in 0..(MaxEntries + 1) |-> "dm-0"][n]

\* lines 105 and 136: format!("dm-{}", next_dm_index)
DmName(n) == [k \in 0..(MaxEntries + 1) |-> "dm-" \o ToString(k)][n]

\* the verity branch and mount_partition for entry i with mount target
\* target: [done, ret, dm_used], done being the operations performed and ret
\* "Ok", the error returned with ?, or "panic" for dm.as_mut().unwrap() on None
MountEntry(i, entry, target, have_dm, dm_index, failed, node_ok, mount_ok) ==
    LET mount == Sys("mount", i, target, mount_ok)
        mounted == [done |-> <<mount>>,
                    ret |-> IF mount_ok THEN "Ok" ELSE "OsError"]
    IN  IF ~is_verity_protected(entry) THEN mounted
        ELSE IF ~have_dm THEN [done |-> <<>>, ret |-> "panic"]
        ELSE LET build == Sys("create_dm_device:" \o failed, i, DmName(dm_index),
                              failed = "none")
                 node  == Sys("create_dm_device_entry", i, DmName(dm_index), node_ok)
             IN  IF create_dm_device(failed) # "Ok"
                 THEN [done |-> <<build>>, ret |-> create_dm_device(failed)]
                 ELSE IF ~node_ok
                 THEN [done |-> <<build, node>>, ret |-> "NotFound"]
                 ELSE [done |-> <<build, node>> \o mounted.done, ret |-> mounted.ret]

\* mountpoints of the fstabs examined: "/" at any position or absent, the
\* other mountpoints distinct; and fstabs whose first two entries both
\* have "/"
OtherMountpoints == <<"/vendor", "/data", "/opt", "/cache">>

Layouts ==
    UNION {
        {[k \in 1..n |-> OtherMountpoints[k]]} \cup
        {[k \in 1..n |-> IF k = r THEN "/"
                         ELSE IF k < r THEN OtherMountpoints[k]
                         ELSE OtherMountpoints[k - 1]] : r \in 1..n} \cup
        {[k \in 1..n |-> IF k <= 2 THEN "/" ELSE OtherMountpoints[k]] : m \in {n} \cap (2..n)}
        : n \in 1..MaxEntries}

FlagSets == SUBSET {"first_stage_mount", "verity"}

Fstabs ==
    UNION {
        {[k \in 1..Len(layout) |-> [mountpoint |-> layout[k], fs_manager_flags |-> flags[k]]]
            : flags \in [1..Len(layout) -> FlagSets]}
        : layout \in Layouts}

\* the failed operations among ops, the attempts on the root device aside
FailedOps(ops) ==
    Cardinality({k \in 1..Len(ops) :
        /\ ~ops[k].ok
        /\ ~(ops[k].op = "ensure_mount_device_is_created" /\ ops[k].target = "/")})

MepReturn(ret) ==
    /\ mep_result' = ret
    /\ mep_pc' = "done"

\* lines 48-78: the fstab is read and parsed, the socket bound, and the
\* verity mapper prepared when an entry is verity protected and first stage
MepStart ==
    /\ mep_pc = "start"
    /\ IF should_prepare_verity(fstab_entries)
       THEN \E ensured \in BOOLEAN, opened \in BOOLEAN :
                /\ syscalls' = syscalls \o
                       <<Sys("ensure_mount_device_is_created", 0, "vbmeta", ensured)>> \o
                       (IF ensured THEN <<Sys("Dm::new", 0, "vbmeta", opened)>> ELSE <<>>)
                /\ FailedOps(syscalls') <= MaxFailures
                /\ IF ~ensured THEN MepReturn("NotFound") /\ UNCHANGED dm
                   ELSE IF ~opened THEN MepReturn("Other") /\ UNCHANGED dm
                   ELSE /\ dm' = TRUE
                        /\ mep_pc' = "root"
                        /\ UNCHANGED mep_result
       ELSE /\ mep_pc' = "root"
            /\ UNCHANGED <<syscalls, mep_result, dm>>
    /\ UNCHANGED <<fstab_entries, entry_index, count, next_dm_index>>
    /\ UNCHANGED <<otherThanMep, last>>

\* lines 84-88 and 119-121: the root entry is looked up
MepFindRoot ==
    /\ mep_pc = "root"
    /\ LET r == FindRoot(fstab_entries)
       IN  IF r = 0
           THEN /\ syscalls' = Append(syscalls, Sys("log_error:no_root", 0, "/", TRUE))
                /\ mep_pc' = "switch"
                /\ UNCHANGED count
           ELSE IF ~is_first_stage_mount(fstab_entries[r])
           THEN /\ syscalls' = Append(syscalls, Sys("log_error:not_first_stage", r, "/", TRUE))
                /\ mep_pc' = "switch"
                /\ UNCHANGED count
           ELSE /\ count' = RootAttempts
                /\ mep_pc' = "root_device"
                /\ UNCHANGED syscalls
    /\ UNCHANGED <<fstab_entries, mep_result, entry_index, next_dm_index, dm>>
    /\ UNCHANGED <<otherThanMep, last>>

\* faulty variant of RootLoopContinues: one more iteration is allowed
RootLoopContinues_Inclusive(n) == n >= 0

\* line 89: while count > 0
RootLoopContinues(n) == n > 0

\* lines 89-98: one iteration of the loop that waits for the root device
MepRootDevice ==
    /\ mep_pc = "root_device"
    /\ IF RootLoopContinues(count)
       THEN \E ok \in BOOLEAN :
                /\ syscalls' = Append(syscalls,
                       Sys("ensure_mount_device_is_created", FindRoot(fstab_entries), "/", ok))
                /\ IF ok
                   THEN mep_pc' = "root_mount" /\ UNCHANGED count
                   ELSE count' = count - 1 /\ UNCHANGED mep_pc
       ELSE /\ mep_pc' = "root_mount"
            /\ UNCHANGED <<syscalls, count>>
    /\ UNCHANGED <<fstab_entries, mep_result, entry_index, next_dm_index, dm>>
    /\ UNCHANGED <<otherThanMep, last>>

\* line 103: root.mountpoint = root_temp_mount.clone()
SetMountpoint(entries, r, target) == [entries EXCEPT ![r].mountpoint = target]

\* faulty variant of RestoreMountpoint: the mountpoint is left as it is
RestoreMountpoint_Skipped(entries, r) == entries

\* line 116: root.mountpoint = root_cmp.clone()
RestoreMountpoint(entries, r) == [entries EXCEPT ![r].mountpoint = "/"]

\* lines 103-116: the root entry gets /new_root as its mountpoint, is
\* mounted there (mount_partition mounts an entry on its mountpoint), and
\* gets "/" as its mountpoint again.  When a step fails the function returns
\* at once and the vector is dropped with it; fstab_entries then keeps the
\* fstab as it was parsed.
MepRootMount ==
    /\ mep_pc = "root_mount"
    /\ LET r == FindRoot(fstab_entries)
           staged == SetMountpoint(fstab_entries, r, NewRoot)
       IN  \E failed \in DmFailures, node_ok \in BOOLEAN, mount_ok \in BOOLEAN :
            LET m == MountEntry(r, staged[r], staged[r].mountpoint, dm, next_dm_index,
                                failed, node_ok, mount_ok)
            IN  /\ syscalls' = syscalls \o m.done
                /\ FailedOps(syscalls') <= MaxFailures
                /\ next_dm_index' = IF is_verity_protected(fstab_entries[r])
                                    THEN next_dm_index + 1 ELSE next_dm_index
                /\ IF m.ret = "Ok"
                   THEN /\ mep_pc' = "switch"
                        /\ fstab_entries' = RestoreMountpoint(staged, r)
                        /\ UNCHANGED mep_result
                   ELSE /\ MepReturn(m.ret)
                        /\ UNCHANGED fstab_entries
    /\ UNCHANGED <<entry_index, count, dm>>
    /\ UNCHANGED <<otherThanMep, last>>

\* switch_to_new_root: every failure is logged, Ok(()) is returned
switch_to_new_root(chdir_ok, move_ok, chroot_ok) == "Ok"

\* line 125 and switch_to_new_root: existing mounts are moved, then chdir,
\* mount --move onto / and chroot
MepSwitch ==
    /\ mep_pc = "switch"
    /\ \E moved_ok \in BOOLEAN, chdir_ok \in BOOLEAN, move_ok \in BOOLEAN,
          chroot_ok \in BOOLEAN :
        /\ syscalls' = syscalls \o
               <<Sys("move_mounts", 0, NewRoot, moved_ok),
                 Sys("chdir", 0, NewRoot, chdir_ok),
                 Sys("move_root", 0, "/", move_ok),
                 Sys("chroot", 0, ".", chroot_ok)>>
        /\ FailedOps(syscalls') <= MaxFailures
        /\ IF switch_to_new_root(chdir_ok, move_ok, chroot_ok) = "Ok"
           THEN /\ mep_pc' = "entries"
                /\ entry_index' = 1
                /\ UNCHANGED mep_result
           ELSE /\ MepReturn(switch_to_new_root(chdir_ok, move_ok, chroot_ok))
                /\ UNCHANGED entry_index
    /\ UNCHANGED <<fstab_entries, count, next_dm_index, dm>>
    /\ UNCHANGED <<otherThanMep, last>>

\* faulty variant of the device step of the loop: a failed attempt is
\* repeated once
EnsureAttempts_Retry(ok) == IF ok THEN <<TRUE>> ELSE <<FALSE, FALSE>>

\* line 133: ensure_mount_device_is_created(...)? is called once
EnsureAttempts(ok) == <<ok>>

\* lines 128-146: one iteration of the loop over the entries
MepEntry ==
    /\ mep_pc = "entries"
    /\ entry_index <= Len(fstab_entries)
    /\ LET i == entry_index
           e == fstab_entries[i]
       IN  IF e.mountpoint = "/"
           THEN /\ entry_index' = i + 1
                /\ UNCHANGED <<syscalls, mep_pc, mep_result, next_dm_index>>
           ELSE \E ok \in BOOLEAN, failed \in DmFailures, node_ok \in BOOLEAN,
                   mount_ok \in BOOLEAN :
                LET tries == [k \in 1..Len(EnsureAttempts(ok)) |->
                                 Sys("ensure_mount_device_is_created", i, e.mountpoint,
                                     EnsureAttempts(ok)[k])]
                    m == MountEntry(i, e, e.mountpoint, dm, next_dm_index,
                                    failed, node_ok, mount_ok)
                IN  IF ~ok
                    THEN /\ syscalls' = syscalls \o tries
                         /\ FailedOps(syscalls') <= MaxFailures + Len(tries) - 1
                         /\ MepReturn("NotFound")
                         /\ UNCHANGED <<entry_index, next_dm_index>>
                    ELSE /\ syscalls' = syscalls \o tries \o m.done
                         /\ FailedOps(syscalls') <= MaxFailures
                         /\ next_dm_index' = IF is_verity_protected(e)
                                             THEN next_dm_index + 1 ELSE next_dm_index
                         /\ IF m.ret = "Ok"
                            THEN /\ entry_index' = i + 1
                                 /\ UNCHANGED <<mep_pc, mep_result>>
                            ELSE /\ MepReturn(m.ret)
                                 /\ UNCHANGED entry_index
    /\ UNCHANGED <<fstab_entries, count, dm>>
    /\ UNCHANGED <<otherThanMep, last>>

\* line 147: Ok(())
MepReturnOk ==
    /\ mep_pc = "entries"
    /\ entry_index > Len(fstab_entries)
    /\ MepReturn("Ok")
    /\ UNCHANGED <<fstab_entries, syscalls, entry_index, count, next_dm_index, dm>>
    /\ UNCHANGED <<otherThanMep, last>>

InitMep ==
    /\ BcsIdle
    /\ UeventIdle
    /\ EmIdle
    /\ last = [op |-> "none", arg |-> AtDir(0), ret |-> NoCall, image |-> NoImage]
    /\ fstab_entries \in Fstabs
    /\ mep_pc = "start"
    /\ syscalls = <<>>
    /\ mep_result = "none"
    /\ entry_index = 0
    /\ count = 0
    /\ next_dm_index = 0
    /\ dm = FALSE

NextMep ==
    \/ MepStart
    \/ MepFindRoot
    \/ MepRootDevice
    \/ MepRootMount
    \/ MepSwitch
    \/ MepEntry
    \/ MepReturnOk

SpecMep == InitMep /\ [][NextMep]_vars

\* the operations of the root switch
PivotOps == {"chdir", "move_root", "chroot"}

\* the records of Dm::create_dm_device with a failed step
DmBuildFailed == {"create_dm_device:" \o DmSteps[k] : k \in 1..Len(DmSteps)}

\* C15: when the "/" entry of the fstab is not marked first_stage_mount,
\* mount_early_partitions performs no root switch (no move of mounts, chdir
\* or chroot), mounts no fstab entry and does not return Ok.
C15_AbortsWhenRootNotFirstStage ==
    LET r == FindRoot(fstab_entries)
    IN  (r # 0 /\ ~is_first_stage_mount(fstab_entries[r])) =>
            /\ \A k \in 1..Len(syscalls) :
                   syscalls[k].op \notin PivotOps \cup {"move_mounts", "mount"}
            /\ mep_result # "Ok"

\* the fstab has "/" without first_stage_mount followed by /vendor: the root
\* switch was made, /vendor was mounted and Ok returned
C15_Witness ==
    /\ Len(fstab_entries) = 2
    /\ fstab_entries[1].mountpoint = "/"
    /\ ~is_first_stage_mount(fstab_entries[1])
    /\ mep_result = "Ok"
    /\ \E k \in 1..Len(syscalls) : syscalls[k].op = "chroot" /\ syscalls[k].ok
    /\ syscalls[Len(syscalls)] = Sys("mount", 2, "/vendor", TRUE)

\* C16: when the mount of the "/" entry fails or a step of the root switch
\* (chdir to /new_root, move of /new_root onto /, chroot) fails,
\* mount_early_partitions mounts no fstab entry afterwards and does not
\* return Ok.
C16_AbortsWhenPivotFails ==
    \A k \in 1..Len(syscalls) :
        (/\ ~syscalls[k].ok
         /\ \/ syscalls[k].op \in PivotOps
            \/ syscalls[k].op = "mount" /\ syscalls[k].target = NewRoot) =>
            /\ \A j \in (k + 1)..Len(syscalls) : syscalls[j].op # "mount"
            /\ mep_result # "Ok"

\* chdir to /new_root failed, /vendor was mounted afterwards and Ok returned
C16_Witness ==
    /\ mep_result = "Ok"
    /\ \E k \in 1..Len(syscalls) :
           /\ syscalls[k] = Sys("chdir", 0, NewRoot, FALSE)
           /\ \E j \in (k + 1)..Len(syscalls) : syscalls[j] = Sys("mount", 2, "/vendor", TRUE)

\* C17: when a step of Dm::create_dm_device fails (canonicalization, device
\* creation, verity-entry lookup, table load, resume), nothing is done for
\* the entry afterwards, in particular no mount, and mount_early_partitions
\* returns the error.
C17_VerityErrorPropagates ==
    \A k \in 1..Len(syscalls) :
        syscalls[k].op \in DmBuildFailed =>
            /\ k = Len(syscalls)
            /\ mep_result = "PermissionDenied"

\* the table load for the verity-protected root failed; the device node was
\* created all the same and the root mounted on it
C17_Witness ==
    \E k \in 1..Len(syscalls) :
        /\ syscalls[k].op = "create_dm_device:table_load"
        /\ syscalls[k].entry = FindRoot(fstab_entries)
        /\ k + 2 <= Len(syscalls)
        /\ syscalls[k + 2] = Sys("mount", syscalls[k].entry, NewRoot, TRUE)

MaxStepFailures == 2

Step(op, path, arg, msg) == [op |-> op, path |-> path, arg |-> arg, msg |-> msg]

\* the body of early_mount up to the call of create_dev_mapper_device_entry
EarlyMountSteps ==
    <<Step("mount", "/dev", "devtmpfs MS_NOSUID mode=0755", "mount tmpfs failed"),
      Step("mkdir", "/dev/pts", "0755", "mkdir /dev/pts failed"),
      Step("mkdir", "/dev/socket", "0755", "mkdir /dev/socket failed"),
      Step("mkdir", "/dev/dm-user", "0755", "mkdir /dev/dm-user failed"),
      Step("mount", "/dev/pts", "devpts 0", "mount devpts failed"),
      Step("mount", "/proc", "proc 0 hidepid=2,gid=ReadProc", "mount proc failed"),
      Step("chmod", "/proc/cmdline", "0440", "chmod /proc/cmdline failed"),
      Step("read_to_string", "/proc/cmdline", "", "Failed to read /proc/cmdline"),
      Step("chmod", "/proc/bootconfig", "0440", "chmod /proc/bootconfig failed"),
      Step("setgroups", "", "ReadProc", "setgroups failed"),
      Step("mount", "/sys", "sysfs 0", "mount sysfs failed"),
      Step("mknod", "/dev/kmsg", "S_IFCHR 0600 1 11", "mknod /dev/kmsg failed"),
      Step("mknod", "/dev/random", "S_IFCHR 0666 1 8", "mknod /dev/random failed"),
      Step("mknod", "/dev/urandom", "S_IFCHR 0666 1 9", "mknod /dev/urandom failed"),
      Step("mknod", "/dev/console", "S_IFCHR 0666 5 1", "mknod /dev/console failed"),
      Step("mknod", "/dev/ptmx", "S_IFCHR 0666 5 2", "mknod /dev/ptmx failed"),
      Step("mknod", "/dev/null", "S_IFCHR 0666 1 3", "mknod /dev/null failed"),
      Step("mknod", "/dev/zero", "S_IFCHR 0666 1 5", "mknod /dev/zero failed"),
      Step("mknod", "/dev/full", "S_IFCHR 0666 1 7", "mknod /dev/full failed"),
      Step("mknod", "/dev/tty", "S_IFCHR 0666 5 0", "mknod /dev/tty failed"),
      Step("mount", "/mnt", "tmpfs MS_NOEXEC|MS_NOSUID|MS_NODEV mode=0755,uid=0,gid=1000",
           "mount tmpfs failed"),
      Step("mount", "/run",
           "tmpfs MS_NOEXEC|MS_NOSUID|MS_NODEV mode=0755,uid=0,nodev,nosuid,strictatime",
           "mount tmpfs to /run failed"),
      Step("mount", "/idex", "tmpfs MS_NOSUID mode=0755,uid=0,gid=1000", "mount idex failed"),
      Step("mkdir", "/new_root", "0755", "mkdir /new_root failed"),
      Step("mount", "/new_root", "/new_root MS_BIND", "bind mount of /new_root to itself failed")>>

\* the two system calls of create_dev_mapper_device_entry
DevMapperSteps ==
    <<Step("mkdir", "/dev/mapper", "0755", "Error creating /dev/mapper"),
      Step("mknod", "/dev/mapper/control", "S_IFCHR 0600 10 minor",
           "Error creating /dev/mapper/control")>>

AllSteps == EarlyMountSteps \o DevMapperSteps

ProcMiscChoices == {"unreadable", "no_device_mapper", "device_mapper"}

\* lines 247-256: the minor number of the device-mapper line, if there is one
dev_mapper_minor(contents) == IF contents = "device_mapper" THEN Some(236) ELSE None

Failed(done) == {k \in 1..Len(done) : ~done[k].ok}

\* if 0 != err { errors.push(...) }
PushError(errs, step, ok) == IF ok THEN errs ELSE Append(errs, step.msg)

\* one system call of the body of early_mount, with the test of its result
EmStep ==
    /\ em_pc \in 1..Len(EarlyMountSteps)
    /\ \E ok \in BOOLEAN :
        /\ em_done' = Append(em_done, [step |-> em_pc, ok |-> ok])
        /\ Cardinality(Failed(em_done')) <= MaxStepFailures
        /\ errors' = PushError(errors, EarlyMountSteps[em_pc], ok)
    /\ em_pc' = em_pc + 1
    /\ UNCHANGED <<proc_misc, em_result>>
    /\ UNCHANGED <<otherThanEm, last>>

\* lines 244-256: /proc/misc is read and searched; unwrap panics when the
\* file cannot be read
EmReadProcMisc ==
    /\ em_pc = Len(EarlyMountSteps) + 1
    /\ em_result = "none"
    /\ IF proc_misc = "unreadable"
       THEN em_result' = "panic" /\ UNCHANGED em_pc
       ELSE em_pc' = em_pc + 1 /\ UNCHANGED em_result
    /\ UNCHANGED <<em_done, errors, proc_misc>>
    /\ UNCHANGED <<otherThanEm, last>>

\* lines 259-262: mkdir /dev/mapper
EmMkdirMapper ==
    /\ em_pc = Len(EarlyMountSteps) + 2
    /\ \E ok \in BOOLEAN :
        /\ em_done' = Append(em_done, [step |-> em_pc - 1, ok |-> ok])
        /\ Cardinality(Failed(em_done')) <= MaxStepFailures
        /\ errors' = PushError(errors, AllSteps[em_pc - 1], ok)
    /\ em_pc' = em_pc + 1
    /\ UNCHANGED <<proc_misc, em_result>>
    /\ UNCHANGED <<otherThanEm, last>>

\* lines 263-270: mknod /dev/mapper/control; dev_mapper_minor.unwrap()
\* panics when no device-mapper line was found
EmMknodControl ==
    /\ em_pc = Len(EarlyMountSteps) + 3
    /\ em_result = "none"
    /\ IF dev_mapper_minor(proc_misc) = None
       THEN /\ em_result' = "panic"
            /\ UNCHANGED <<em_pc, em_done, errors>>
       ELSE /\ \E ok \in BOOLEAN :
                /\ em_done' = Append(em_done, [step |-> em_pc - 1, ok |-> ok])
                /\ Cardinality(Failed(em_done')) <= MaxStepFailures
                /\ errors' = PushError(errors, AllSteps[em_pc - 1], ok)
            /\ em_pc' = em_pc + 1
            /\ UNCHANGED em_result
    /\ UNCHANGED proc_misc
    /\ UNCHANGED <<otherThanEm, last>>

\* line 240: errors
EmReturn ==
    /\ em_pc = Len(EarlyMountSteps) + 4
    /\ em_result = "none"
    /\ em_result' = "returned"
    /\ UNCHANGED <<em_pc, em_done, errors, proc_misc>>
    /\ UNCHANGED <<otherThanEm, last>>

InitEm ==
    /\ BcsIdle
    /\ UeventIdle
    /\ last = [op |-> "none", arg |-> AtDir(0), ret |-> NoCall, image |-> NoImage]
    /\ fstab_entries = <<>>
    /\ mep_pc = "idle"
    /\ syscalls = <<>>
    /\ mep_result = "none"
    /\ entry_index = 0
    /\ count = 0
    /\ next_dm_index = 0
    /\ dm = FALSE
    /\ devfs = <<>>
    /\ em_pc = 1
    /\ em_done = <<>>
    /\ errors = <<>>
    /\ proc_misc \in ProcMiscChoices
    /\ em_result = "none"

NextEm ==
    \/ EmStep
    \/ EmReadProcMisc
    \/ EmMkdirMapper
    \/ EmMknodControl
    \/ EmReturn

SpecEm == InitEm /\ [][NextEm]_vars

\* C19: early_mount makes every one of its steps in the fixed order and
\* returns, whatever steps fail and whatever /proc/misc holds; the vector
\* returned holds the message of every failed step, in step order, and is
\* empty exactly when every step succeeded.
C19_AlwaysReturnsAllErrors ==
    /\ em_result # "panic"
    /\ \A k \in 1..Len(em_done) : em_done[k].step = k
    /\ errors = [k \in 1..Cardinality(Failed(em_done)) |->
                    AllSteps[CHOOSE j \in Failed(em_done) :
                                 Cardinality({i \in Failed(em_done) : i <= j}) = k].msg]
    /\ em_result = "returned" =>
           /\ Len(em_done) = Len(AllSteps)
           /\ (errors = <<>>) <=> (\A k \in 1..Len(em_done) : em_done[k].ok)

\* every system call of the body succeeded, /dev/mapper was created, and
\* early_mount panicked on a /proc/misc without a device-mapper line
C19_Witness ==
    /\ em_result = "panic"
    /\ proc_misc = "no_device_mapper"
    /\ Len(em_done) = Len(EarlyMountSteps) + 1
    /\ errors = <<>>

(***************************************************************************)
(* Device node creation: handle_uevent and handle_add acting on /dev.      *)
(* devfs maps every path of DevPaths to what is found there; "/" always    *)
(* exists.  The outcome of mkdir, mknod and symlink is chosen by the       *)
(* environment (io).                                                       *)
(***************************************************************************)

DevPaths ==
    {"/dev", "/dev/block", "/dev/block/vda6", "/dev/block/vdb1",
     "/dev/block/by-name", "/dev/block/by-name/system"}

\* Path::parent
Parent ==
    [p \in DevPaths |->
        CASE p = "/dev" -> "/"
          [] p = "/dev/block" -> "/dev"
          [] p = "/dev/block/by-name" -> "/dev/block"
          [] p = "/dev/block/by-name/system" -> "/dev/block/by-name"
          [] OTHER -> "/dev/block"]

\* Path::ancestors: the path itself, then its parents up to "/"
RECURSIVE Ancestors(_)
Ancestors(p) == IF p = "/" THEN <<"/">> ELSE <<p>> \o Ancestors(Parent[p])

\* Path::file_name of the DEVPATH values of the events examined
FileName ==
    [d \in {"/devices/virtio1/block/vda/vda6", "/devices/virtio2/block/vdb/vdb1"} |->
        IF d = "/devices/virtio1/block/vda/vda6" THEN "vda6" ELSE "vdb1"]

Absent ==
    [kind |-> "absent", major |-> 0, minor |-> 0, mode |-> 0, owner |-> 0, group |-> 0,
     target |-> ""]
Dir(mode, owner, group) == [Absent EXCEPT !.kind = "dir", !.mode = mode, !.owner = owner,
                                          !.group = group]
Node(kind, mode, major, minor) == [Absent EXCEPT !.kind = kind, !.mode = mode,
                                                 !.major = major, !.minor = minor]
Link(target) == [Absent EXCEPT !.kind = "link", !.target = target]

\* Path::exists: symbolic links are followed
exists(fs, p) ==
    IF p = "/" THEN TRUE
    ELSE IF fs[p].kind = "link"
    THEN fs[p].target \in DevPaths /\ fs[fs[p].target].kind \notin {"absent", "link"}
    ELSE fs[p].kind # "absent"

\* DefaultAttributes::get_file_attributes
get_file_attributes(path) == [owner |-> 0, group |-> 0, mode |-> 384]

\* UEvent::get_dev_type
get_dev_type(event) ==
    IF event.maybe_subsystem = Some("block") THEN "S_IFBLK" ELSE "S_IFCHR"

Done(ret, fs) == [ret |-> ret, fs |-> fs]

\* Ok(()) and a panic of the process
Unit == [tag |-> "Ok"]
Panic == [tag |-> "panic"]

\* the loop of create_dir_if_needed over todo, a suffix of the ancestors
RECURSIVE CreateDirs(_, _, _, _)
CreateDirs(fs, todo, attrs, io) ==
    IF todo = <<>> THEN Done(Unit, fs)
    ELSE LET p == Head(todo)
         IN  IF exists(fs, p) THEN CreateDirs(fs, Tail(todo), attrs, io)
             ELSE IF ~exists(fs, Parent[p]) THEN Done(Err("NotFound"), fs)
             ELSE IF fs[p].kind # "absent" THEN Done(Err("AlreadyExists"), fs)
             ELSE IF ~io.mkdir THEN Done(Err("OsError"), fs)
             ELSE CreateDirs([fs EXCEPT ![p] = Dir(attrs.mode, attrs.owner, attrs.group)],
                             Tail(todo), attrs, io)

create_dir_if_needed(fs, dev_path, attrs, io) ==
    CreateDirs(fs, Ancestors(Parent[dev_path]), attrs, io)

\* faulty variant of create_device: mknod is called although the node exists
create_device_NoExistsTest(fs, dev_path, attrs, kind, major, minor, io) ==
    LET dirs == create_dir_if_needed(fs, dev_path, attrs, io)
    IN  IF dirs.ret.tag # "Ok" THEN dirs
        ELSE IF dirs.fs[dev_path].kind # "absent" \/ ~io.mknod
        THEN Done(Err("Unsupported"), dirs.fs)
        ELSE Done(Unit, [dirs.fs EXCEPT ![dev_path] = Node(kind, attrs.mode, major, minor)])

create_device(fs, dev_path, attrs, kind, major, minor, io) ==
    LET dirs == create_dir_if_needed(fs, dev_path, attrs, io)
    IN  IF dirs.ret.tag # "Ok" THEN dirs
        ELSE IF exists(dirs.fs, dev_path) THEN Done(Unit, dirs.fs)
        ELSE IF dirs.fs[dev_path].kind # "absent" \/ ~io.mknod
        THEN Done(Err("Unsupported"), dirs.fs)
        ELSE Done(Unit, [dirs.fs EXCEPT ![dev_path] = Node(kind, attrs.mode, major, minor)])

\* create_links for the one link handle_add passes
create_links(fs, dev_path, link, attrs, io) ==
    IF exists(fs, link) THEN Done(Unit, fs)
    ELSE LET dirs == create_dir_if_needed(fs, link, attrs, io)
         IN  IF dirs.ret.tag # "Ok" THEN dirs
             ELSE IF dirs.fs[link].kind # "absent" \/ ~io.symlink
             THEN Done(Err("OsError"), dirs.fs)
             ELSE Done(Unit, [dirs.fs EXCEPT ![link] = Link(dev_path)])

handle_add(fs, event, io) ==
    IF event.action # "Add" THEN Done(Panic, fs)
    ELSE IF event.maybe_major = None \/ event.maybe_minor = None
    THEN Done(Err("InvalidInput"), fs)
    ELSE IF event.maybe_subsystem = None THEN Done(Panic, fs)
    ELSE IF event.maybe_subsystem = Some("block")
    THEN LET device_path == "/dev/block/" \o FileName[event.dev_path]
             attrs == get_file_attributes(device_path)
             node == create_device(fs, device_path, attrs, get_dev_type(event),
                                   event.maybe_major[1], event.maybe_minor[1], io)
         IN  IF node.ret.tag # "Ok" THEN node
             ELSE IF event.maybe_partitionname = None THEN Done(Unit, node.fs)
             ELSE create_links(node.fs, device_path,
                               "/dev/block/by-name/" \o event.maybe_partitionname[1],
                               attrs, io)
    ELSE IF event.maybe_subsystem \in {Some("usb"), Some("net")} THEN Done(Panic, fs)
    ELSE Done(Unit, fs)

handle_uevent(fs, event, io) ==
    IF event.action = "Add" THEN handle_add(fs, event, io) ELSE Done(Panic, fs)

\* the events handed to handle_uevent
BlockAdd(dev_path, major, minor, partname) ==
    [EmptyUEvent EXCEPT !.action = "Add", !.dev_path = dev_path,
                        !.maybe_subsystem = Some("block"), !.maybe_major = major,
                        !.maybe_minor = minor, !.maybe_partitionname = partname]

DevEvents ==
    {BlockAdd("/devices/virtio1/block/vda/vda6", Some(252), Some(6), pn) :
        pn \in {None, Some("system")}} \cup
    {BlockAdd("/devices/virtio2/block/vdb/vdb1", Some(252), Some(17), Some("system")),
     BlockAdd("/devices/virtio1/block/vda/vda6", None, Some(6), None),
     BlockAdd("/devices/virtio1/block/vda/vda6", Some(252), None, Some("system")),
     [BlockAdd("/devices/virtio1/block/vda/vda6", Some(252), Some(6), None)
         EXCEPT !.maybe_subsystem = Some("usb")],
     [BlockAdd("/devices/virtio1/block/vda/vda6", Some(252), Some(6), None)
         EXCEPT !.maybe_subsystem = Some("net")],
     [BlockAdd("/devices/virtio1/block/vda/vda6", Some(252), Some(6), None)
         EXCEPT !.maybe_subsystem = Some("input")],
     [BlockAdd("/devices/virtio1/block/vda/vda6", Some(252), Some(6), None)
         EXCEPT !.maybe_subsystem = None],
     [BlockAdd("/devices/virtio1/block/vda/vda6", Some(252), Some(6), None)
         EXCEPT !.action = "Change"]}

IoChoices == [mkdir : BOOLEAN, mknod : BOOLEAN, symlink : BOOLEAN]

\* the /dev trees handle_uevent may find: every entry has its parent and
\* every link leads to a node (nothing removes a node under /dev/block)
DevTrees ==
    {fs \in [DevPaths -> {Absent, Dir(493, 0, 0), Node("S_IFBLK", 384, 252, 6),
                          Node("S_IFBLK", 384, 252, 17),
                          Link("/dev/block/vda6"), Link("/dev/block/vdb1")}] :
        /\ \A p \in {"/dev", "/dev/block", "/dev/block/by-name"} :
               fs[p].kind \in {"absent", "dir"}
        /\ \A p \in DevPaths :
               (fs[p].kind # "absent" /\ Parent[p] # "/") => fs[Parent[p]].kind = "dir"
        /\ fs["/dev/block/vda6"] \in {Absent, Node("S_IFBLK", 384, 252, 6),
                                      Node("S_IFBLK", 384, 252, 17)}
        /\ fs["/dev/block/vdb1"] \in {Absent, Node("S_IFBLK", 384, 252, 17)}
        /\ fs["/dev/block/by-name/system"].kind \in {"absent", "link"}
        /\ fs["/dev/block/by-name/system"].kind = "link" =>
               exists(fs, "/dev/block/by-name/system")}

HandleUevent ==
    /\ last.ret # Panic
    /\ \E event \in DevEvents, io \in IoChoices :
        LET r == handle_uevent(devfs, event, io)
        IN  /\ devfs' = r.fs
            /\ last' = [op |-> "handle_uevent", arg |-> event, ret |-> r.ret,
                        image |-> NoImage]
    /\ UNCHANGED otherThanDev

InitDev ==
    /\ BcsIdle
    /\ UeventIdle
    /\ fstab_entries = <<>>
    /\ mep_pc = "idle"
    /\ syscalls = <<>>
    /\ mep_result = "none"
    /\ entry_index = 0
    /\ count = 0
    /\ next_dm_index = 0
    /\ dm = FALSE
    /\ em_pc = 0
    /\ em_done = <<>>
    /\ errors = <<>>
    /\ proc_misc = "device_mapper"
    /\ em_result = "none"
    /\ devfs \in DevTrees
    /\ last = [op |-> "none", arg |-> EmptyUEvent, ret |-> NoCall, image |-> NoImage]

NextDev == HandleUevent

SpecDev == InitDev /\ [][NextDev]_vars

AllOk == [mkdir |-> TRUE, mknod |-> TRUE, symlink |-> TRUE]

C21_LinkLeadsToNode ==
    /\ \A event \in {e \in DevEvents : e.action = "Add"}, io \in IoChoices :
        LET r == handle_add(devfs, event, io)
        IN  (/\ r.ret = Unit
             /\ event.maybe_subsystem = Some("block")
             /\ event.maybe_partitionname # None) =>
                r.fs["/dev/block/by-name/" \o event.maybe_partitionname[1]] =
                    Link("/dev/block/" \o FileName[event.dev_path])
    /\ (/\ last.op = "handle_uevent"
        /\ last.ret = Unit
        /\ last.arg.maybe_subsystem = Some("block")
        /\ last.arg.maybe_partitionname # None) =>
           devfs["/dev/block/by-name/" \o last.arg.maybe_partitionname[1]] =
               Link("/dev/block/" \o FileName[last.arg.dev_path])

\* handle_add returned Ok for vdb1 with partition name system, both nodes
\* exist, and the by-name link still leads to vda6
C21_Witness ==
    /\ last.op = "handle_uevent"
    /\ last.arg = BlockAdd("/devices/virtio2/block/vdb/vdb1", Some(252), Some(17),
                           Some("system"))
    /\ last.ret = Unit
    /\ devfs["/dev/block/vdb1"] = Node("S_IFBLK", 384, 252, 17)
    /\ devfs["/dev/block/vda6"] = Node("S_IFBLK", 384, 252, 6)
    /\ devfs["/dev/block/by-name/system"] = Link("/dev/block/vda6")

\* C22: handle_add on an Add event with major and minor whose subsystem is
\* "usb", "net" or another value that is not "block" returns Ok, leaves /dev
\* as it was and does not abort the process.
C22_OtherSubsystemsAreNoOps ==
    /\ \A event \in {e \in DevEvents : e.action = "Add"}, io \in IoChoices :
        (/\ event.maybe_major # None
         /\ event.maybe_minor # None
         /\ event.maybe_subsystem \notin {None, Some("block")}) =>
            handle_add(devfs, event, io) = Done(Unit, devfs)
    /\ (/\ last.op = "handle_uevent"
        /\ last.arg.action = "Add"
        /\ last.arg.maybe_major # None
        /\ last.arg.maybe_minor # None
        /\ last.arg.maybe_subsystem \notin {None, Some("block")}) =>
           last.ret = Unit

\* handle_uevent was given an Add event of subsystem "net" with major and
\* minor, and the process aborted
C22_Witness ==
    /\ last.op = "handle_uevent"
    /\ last.arg.action = "Add"
    /\ last.arg.maybe_subsystem = Some("net")
    /\ last.arg.maybe_major = Some(252)
    /\ last.arg.maybe_minor = Some(6)
    /\ last.ret = Panic

(***************************************************************************)
(* Part 4.  Fstab parser (fstab.rs).                                       *)
(*                                                                         *)
(* A text is the sequence of its atoms: the characters with a role in      *)
(* parsing (new line, carriage return, blank, tab, comma, '#', NUL) are    *)
(* atoms of their own, every other atom is a word, a string holding none   *)
(* of these characters.  An fstab line is described by [comment, indent,   *)
(* fields, sep, cr]: fields is the sequence of its fields, a field the     *)
(* sequence of its comma-separated tokens, a token a sequence of atoms;    *)
(* RenderLine writes the line out and parse_entries reads the text back.   *)
(***************************************************************************)
\* lines of the fstab file
MaxLines == 2

Nul == "^@"
WhiteSpace == {" ", "\t", "\r"}

\* libc's values of the mount flags named by get_mount_option
MS_RDONLY == 1
MS_NOSUID == 2
MS_NODEV == 4
MS_NOEXEC == 8
MS_SYNC == 4
MS_MANDLOCK == 64
MS_DIRSYNC == 128
MS_NOATIME == 1024
MS_NODIRATIME == 2048
MS_SILENT == 32768
MS_STRICTATIME == 16777216
MS_LAZYTIME == 33554432

\* a | b on c_ulong values below 2^26
RECURSIVE BitOr(_, _)
BitOr(a, b) ==
    IF a = 0 THEN b
    ELSE IF b = 0 THEN a
    ELSE (IF a % 2 = 1 \/ b % 2 = 1 THEN 1 ELSE 0) + 2 * BitOr(a \div 2, b \div 2)

\* str::split(separator): the pieces between separators, empty ones included
RECURSIVE Split(_, _)
Split(text, seps) ==
    IF \E k \in 1..Len(text) : text[k] \in seps
    THEN LET k == CHOOSE k \in 1..Len(text) :
                      /\ text[k] \in seps
                      /\ \A j \in 1..(k - 1) : text[j] \notin seps
         IN  <<SubSeq(text, 1, k - 1)>> \o Split(SubSeq(text, k + 1, Len(text)), seps)
    ELSE <<text>>

\* str::lines: a final empty piece is no line; a line ends before "\n" or "\r\n"
lines(contents) ==
    LET pieces == Split(contents, {"\n"})
        kept == IF pieces[Len(pieces)] = <<>>
                THEN SubSeq(pieces, 1, Len(pieces) - 1) ELSE pieces
    IN  [k \in 1..Len(kept) |->
            IF kept[k] # <<>> /\ kept[k][Len(kept[k])] = "\r"
            THEN SubSeq(kept[k], 1, Len(kept[k]) - 1) ELSE kept[k]]

\* str::split_whitespace
split_whitespace(line) ==
    LET NonEmpty(piece) == piece # <<>>
    IN  SelectSeq(Split(line, WhiteSpace), NonEmpty)

\* the string made of the atoms of a piece of text
RECURSIVE Text(_)
Text(atoms) == IF atoms = <<>> THEN "" ELSE Head(atoms) \o Text(Tail(atoms))

\* CString::new(..).unwrap(): panics on an interior NUL byte
CStringPanics(atoms) == \E k \in 1..Len(atoms) : atoms[k] = Nul

\* FsManagerFlags::from_str
from_str(s) ==
    IF s \in {"slotselect", "first_stage_mount", "verity", "logical"} THEN s
    ELSE "Other(" \o s \o ")"

get_mount_option(option) ==
    CASE option = "ro" -> MS_RDONLY
      [] option = "rw" -> 0
      [] option = "dirsync" -> MS_DIRSYNC
      [] option = "lazytime" -> MS_LAZYTIME
      [] option = "mandlock" -> MS_MANDLOCK
      [] option = "noatime" -> MS_NOATIME
      [] option = "nodev" -> MS_NODEV
      [] option = "nodiratime" -> MS_NODIRATIME
      [] option = "noexec" -> MS_NOEXEC
      [] option = "nosiud" -> MS_NOSUID
      [] option = "silent" -> MS_SILENT
      [] option = "strictatime" -> MS_STRICTATIME
      [] option = "sync" -> MS_SYNC
      [] OTHER -> 0

\* the loop over parts[3].split(",")
RECURSIVE FoldMountOptions(_, _)
FoldMountOptions(mount_options, tokens) ==
    IF tokens = <<>> THEN mount_options
    ELSE FoldMountOptions(BitOr(mount_options, get_mount_option(Text(Head(tokens)))),
                          Tail(tokens))

\* the body of the loop of parse_entries over contents.lines(): the line is
\* skipped, or gives an entry, or a CString::new(..).unwrap() panics.  The
\* Vec of flags is kept as the set of its elements (it is only searched).
ParseFstabLine(line, suffix) ==
    IF line # <<>> /\ Head(line) = "#" THEN [tag |-> "skip"]
    ELSE LET parts == split_whitespace(line)
         IN  IF Len(parts) # 5 THEN [tag |-> "skip"]
             ELSE LET tokens == Split(parts[5], {","})
                      flags == {from_str(Text(tokens[k])) : k \in 1..Len(tokens)}
                  IN  IF \E k \in 1..3 : CStringPanics(parts[k])
                      THEN [tag |-> "panic"]
                      ELSE [tag |-> "entry",
                            entry |->
                              [fs_spec |-> IF "slotselect" \in flags
                                           THEN Text(parts[1]) \o "_" \o suffix
                                           ELSE Text(parts[1]),
                               mountpoint |-> Text(parts[2]),
                               vfs_type |-> Text(parts[3]),
                               mount_options |-> FoldMountOptions(0, Split(parts[4], {","})),
                               fs_manager_flags |-> flags]]

\* FsEntry::parse_entries: [tag, entries]
RECURSIVE ParseFstabLines(_, _, _)
ParseFstabLines(todo, suffix, entries) ==
    IF todo = <<>> THEN [tag |-> "Ok", entries |-> entries]
    ELSE LET r == ParseFstabLine(Head(todo), suffix)
         IN  IF r.tag = "panic" THEN [tag |-> "panic", entries |-> <<>>]
             ELSE ParseFstabLines(Tail(todo), suffix,
                                  IF r.tag = "entry" THEN Append(entries, r.entry)
                                  ELSE entries)

parse_entries(contents, suffix) == ParseFstabLines(lines(contents), suffix, <<>>)

(***************************************************************************)
(* Fstab files.                                                            *)
(***************************************************************************)
\* a field of one token of one word, and a field of one-word tokens
Word(s) == << <<s>> >>
Tokens(words) == [k \in 1..Len(words) |-> <<words[k]>>]

FstabLine(indent, fields, sep, cr) ==
    [indent |-> indent, fields |-> fields, sep |-> sep, cr |-> cr]

\* the lines of the files parsed: lines of the fstab of test_construct,
\* comments, lines with four and six fields, a '#' after a blank, a NUL byte
\* within a mount point, an empty line, a line ending in "\r\n"
FstabLines ==
    {FstabLine(<<>>, <<Word("/dev/block/by-name/system"), Word("/"), Word("ext2"),
                       Tokens(<<"ro", "noauto", "nouser">>),
                       Tokens(<<"slotselect", "first_stage_mount", "verity">>)>>,
               <<" ", " ">>, FALSE),
     FstabLine(<<>>, <<Word("/dev/block/by-name/data"), Word("/data"), Word("ext2"),
                       Tokens(<<"rw", "dirsync", "lazytime", "mandlock">>),
                       Word("first_stage_mount")>>,
               <<"\t">>, FALSE),
     FstabLine(<<>>, << << <<"#", "fstab">> >>, Word("for"), Word("initrd.")>>,
               <<" ">>, FALSE),
     FstabLine(<<>>, << << <<"#">> >>, Word("system"), Word("must"), Word("be"),
                       Word("root")>>,
               <<" ">>, FALSE),
     FstabLine(<<" ">>, << << <<"#", "/dev/block/by-name/vendor">> >>, Word("/vendor"),
                          Word("ext2"), Word("ro"), Tokens(<<"verity", "slotselect">>)>>,
               <<" ">>, FALSE),
     FstabLine(<<>>, <<Word("/dev/block/by-name/vendor"), Word("/vendor"), Word("ext2"),
                       Word("ro")>>,
               <<" ">>, FALSE),
     FstabLine(<<>>, <<Word("/dev/block/by-name/vendor"), Word("/vendor"), Word("ext2"),
                       Word("ro"), Word("slotselect"), Word("0")>>,
               <<" ">>, FALSE),
     FstabLine(<<>>, <<Word("/dev/block/by-name/cache"), Word("/cache"), Word("ext4"),
                       Tokens(<<"nosuid", "nodev", "noexec">>), Word("defaults")>>,
               <<" ">>, FALSE),
     FstabLine(<<>>, <<Word("/dev/block/by-name/opt"), << <<"/o", Nul, "pt">> >>,
                       Word("ext4"), Word("ro"), Word("slotselect")>>,
               <<" ">>, FALSE),
     FstabLine(<<>>, <<>>, <<" ">>, FALSE),
     FstabLine(<<>>, <<Word("/dev/block/by-name/log"), Word("/log"), Word("ext4"),
                       Tokens(<<"sync", "noatime", "nodiratime", "silent", "strictatime",
                                "nosiud", "">>),
                       Tokens(<<"noslotselect", "logical">>)>>,
               <<" ", "\t">>, TRUE)}

FstabFiles == UNION {[1..n -> FstabLines] : n \in 0..MaxLines}

\* pieces joined by a separator
RECURSIVE Join(_, _)
Join(pieces, sep) ==
    IF pieces = <<>> THEN <<>>
    ELSE IF Len(pieces) = 1 THEN pieces[1]
    ELSE pieces[1] \o sep \o Join(Tail(pieces), sep)

RenderField(field) == Join(field, <<",">>)

RenderLine(line) ==
    line.indent
        \o Join([k \in 1..Len(line.fields) |-> RenderField(line.fields[k])], line.sep)
        \o (IF line.cr THEN <<"\r">> ELSE <<>>)

\* the text of a file, with or without a new line after its last line
RenderFile(file, final_newline) ==
    Join([k \in 1..Len(file) |-> RenderLine(file[k])], <<"\n">>)
        \o (IF final_newline /\ file # <<>> THEN <<"\n">> ELSE <<>>)

(***************************************************************************)
(* parse_entries is called once on the text of a file.                     *)
(***************************************************************************)
ParseEntries ==
    /\ last.op = "none"
    /\ LET r == parse_entries(RenderFile(last.arg.file, last.arg.final_newline),
                              last.arg.slot_suffix)
       IN  /\ fstab_entries' = r.entries
           /\ last' = [last EXCEPT !.op = "parse_entries", !.ret = [tag |-> r.tag]]
    /\ UNCHANGED <<mep_pc, syscalls, mep_result, entry_index, count, next_dm_index, dm>>
    /\ UNCHANGED otherThanMep

InitFstab ==
    /\ BcsIdle
    /\ UeventIdle
    /\ MepIdle
    /\ \E file \in FstabFiles, suffix \in {"a", "b"}, final_newline \in BOOLEAN :
        last = [op |-> "none",
                arg |-> [file |-> file, slot_suffix |-> suffix,
                         final_newline |-> final_newline],
                ret |-> NoCall, image |-> NoImage]

NextFstab == ParseEntries

SpecFstab == InitFstab /\ [][NextFstab]_vars

\* what a line of a file is to the reader of the file
StartsWithHash(line) ==
    /\ line.indent = <<>>
    /\ line.fields # <<>>
    /\ line.fields[1][1] # <<>>
    /\ line.fields[1][1][1] = "#"
IsEntryLine(line) == ~StartsWithHash(line) /\ Len(line.fields) = 5
EntryLines(file) == SelectSeq(file, IsEntryLine)
FieldTokens(field) == [k \in 1..Len(field) |-> Text(field[k])]
HasToken(field, t) == \E k \in 1..Len(field) : Text(field[k]) = t

\* C23: parse_entries yields one entry for every line with exactly five
\* whitespace-separated fields that does not start with '#', in file order,
\* and none for any other line; the entry's fs_spec is "<field 1>_<suffix>"
\* when the flags field holds the token slotselect and field 1 otherwise.
C23_OneEntryPerFiveFieldLine ==
    last.op = "parse_entries" =>
        LET expected == EntryLines(last.arg.file)
        IN  /\ last.ret = Unit
            /\ Len(fstab_entries) = Len(expected)
            /\ \A k \in 1..Len(expected) :
                fstab_entries[k].fs_spec =
                    (IF HasToken(expected[k].fields[5], "slotselect")
                     THEN Text(RenderField(expected[k].fields[1])) \o "_"
                              \o last.arg.slot_suffix
                     ELSE Text(RenderField(expected[k].fields[1])))

\* the file of one line whose mount point holds a NUL byte was parsed, and
\* parse_entries panicked
C23_Witness ==
    /\ last.op = "parse_entries"
    /\ Len(last.arg.file) = 1
    /\ Len(last.arg.file[1].fields) = 5
    /\ last.arg.file[1].fields[2] = << <<"/o", Nul, "pt">> >>
    /\ last.ret = Panic

\* the mapping of mount option tokens to flags as the specification gives it
MountOptionOfSpec(option) ==
    CASE option = "ro" -> MS_RDONLY
      [] option = "rw" -> 0
      [] option = "dirsync" -> MS_DIRSYNC
      [] option = "lazytime" -> MS_LAZYTIME
      [] option = "mandlock" -> MS_MANDLOCK
      [] option = "noatime" -> MS_NOATIME
      [] option = "nodev" -> MS_NODEV
      [] option = "nodiratime" -> MS_NODIRATIME
      [] option = "noexec" -> MS_NOEXEC
      [] option = "nosuid" -> MS_NOSUID
      [] option = "silent" -> MS_SILENT
      [] option = "strictatime" -> MS_STRICTATIME
      [] option = "sync" -> MS_SYNC
      [] OTHER -> 0

RECURSIVE OrOfSpec(_)
OrOfSpec(tokens) ==
    IF tokens = <<>> THEN 0
    ELSE BitOr(MountOptionOfSpec(Head(tokens)), OrOfSpec(Tail(tokens)))

\* C24: the mount_options of every parsed entry are the bitwise OR, over
\* the comma-separated tokens of the line's options field, of the flags the
\* specification's mapping gives (ro -> MS_RDONLY, ..., nosuid -> MS_NOSUID,
\* ..., any other token -> 0).
C24_MountOptionsFollowMapping ==
    (last.op = "parse_entries" /\ last.ret = Unit) =>
        LET expected == EntryLines(last.arg.file)
        IN  /\ Len(fstab_entries) = Len(expected)
            /\ \A k \in 1..Len(expected) :
                fstab_entries[k].mount_options =
                    OrOfSpec(FieldTokens(expected[k].fields[4]))

\* the line with the options nosuid,nodev,noexec was parsed into an entry
\* whose mount_options are MS_NODEV | MS_NOEXEC
C24_Witness ==
    /\ last.op = "parse_entries"
    /\ last.ret = Unit
    /\ Len(last.arg.file) = 1
    /\ Len(last.arg.file[1].fields) = 5
    /\ FieldTokens(last.arg.file[1].fields[4]) = <<"nosuid", "nodev", "noexec">>
    /\ Len(fstab_entries) = 1
    /\ fstab_entries[1].mount_options = MS_NODEV + MS_NOEXEC

(***************************************************************************)
(* Part 5.  The uevent parser on its own: read_uevent is given one message *)
(* of the kernel whose payload is a header segment followed by segments    *)
(* taken from ParseSegments, or by an ACTION and a PARTNAME line.          *)
(***************************************************************************)
\* segments after the header
MaxSegments == 2
\* bytes of a PARTNAME value
MaxNameLen == 2

ParseSegments ==
    {<<"ACTION", "add">>, <<"ACTION", "remove">>, <<"ACTION", "change">>,
     <<"ACTION", "bind">>, <<"ACTION">>, <<"ACTION", "add", "x">>, <<"action", "add">>,
     <<"DEVPATH", "/devices/virtio1/block/vda/vda6">>, <<"DEVPATH", "/devices/a", "b">>,
     <<"SUBSYSTEM", "block">>, <<"MAJOR", "252">>, <<"MAJOR", "0x1">>, <<"MINOR", "6">>,
     <<"DEVNAME", "vda6">>, <<"DEVNAME", "vdb1">>, <<"DEVNAME", "vd<FF>6">>,
     <<"FIRMWARE", "fw.bin">>, <<"PARTN", "6">>, <<"PARTN", "six">>,
     <<"PARTNAME", <<115, 121, 115, 47, 97>> >>, <<"MODALIAS", "virtio:d2">>,
     <<"SEQNUM", "1">>, <<"">>}

\* the header the kernel sends, and a first segment that reads as a line
ParseHeaders == {<<"add@/devices/virtio1/block/vda/vda6">>, <<"ACTION", "add">>}

ParsePayloads ==
    UNION {{<<h>> \o body : h \in ParseHeaders, body \in [1..n -> ParseSegments]}
              : n \in 0..MaxSegments}

\* bytes at and next to the ends of the ranges a-z, A-Z, 0-9, the three
\* allowed signs, a blank and bytes above 127
SampleBytes == {97, 122, 65, 90, 48, 57, 95, 45, 46, 96, 123, 64, 91, 47, 58, 32, 128, 255}
ByteStrings == UNION {[1..n -> SampleBytes] : n \in 0..MaxNameLen}

NamePayloads ==
    {<< <<"add@/devices/virtio1/block/vda/vda6">>, <<"ACTION", "add">>,
        <<"PARTNAME", name>> >> : name \in ByteStrings}

InitParse ==
    /\ BcsIdle
    /\ MepIdle
    /\ last = [op |-> "none", arg |-> -1, ret |-> NoCall, image |-> NoImage]
    /\ sock \in {<<[creds |-> <<0>>, addr |-> KernelAddr, payload |-> p, src |-> 0]>> :
                    p \in ParsePayloads \cup NamePayloads}
    /\ frames = <<>>
    /\ cb = "none"
    /\ seen = <<>>
    /\ writes = <<>>
    /\ outcome = "none"
    /\ calls = 0
    /\ injected = 0

SpecParse == InitParse /\ [][NextNetlink]_vars

\* the last segment after the first that reads KEY=VALUE with the given key
\* (0: there is none), and its value
LastLine(payload, key) ==
    LET hits == {k \in 2..Len(payload) : Len(payload[k]) = 2 /\ payload[k][1] = key}
    IN  IF hits = {} THEN 0 ELSE CHOOSE k \in hits : \A j \in hits : j <= k
ValueOf(payload, key) == payload[LastLine(payload, key)][2]
Given(payload, key) == LastLine(payload, key) # 0

\* the event a payload stands for
ExpectedEvent(payload) ==
    [action |->
        IF ~Given(payload, "ACTION") THEN "Unknown"
        ELSE CASE ValueOf(payload, "ACTION") = "add" -> "Add"
               [] ValueOf(payload, "ACTION") = "remove" -> "Remove"
               [] ValueOf(payload, "ACTION") = "change" -> "Change"
               [] OTHER -> "Unknown",
     dev_path |->
        IF Given(payload, "DEVPATH") THEN from_utf8_lossy(ValueOf(payload, "DEVPATH"))
        ELSE "",
     maybe_subsystem |->
        IF Given(payload, "SUBSYSTEM")
        THEN Some(from_utf8_lossy(ValueOf(payload, "SUBSYSTEM"))) ELSE None,
     maybe_firmware |->
        IF Given(payload, "FIRMWARE")
        THEN Some(from_utf8_lossy(ValueOf(payload, "FIRMWARE"))) ELSE None,
     maybe_major |->
        IF Given(payload, "MAJOR") THEN ParseOk(ValueOf(payload, "MAJOR")) ELSE None,
     maybe_minor |->
        IF Given(payload, "MINOR") THEN ParseOk(ValueOf(payload, "MINOR")) ELSE None,
     maybe_devname |->
        IF Given(payload, "DEVNAME")
        THEN Some(from_utf8_lossy(ValueOf(payload, "DEVNAME"))) ELSE None,
     maybe_partitionnum |->
        IF Given(payload, "PARTN") THEN Some(ParseOrZero(ValueOf(payload, "PARTN")))
        ELSE None,
     maybe_partitionname |->
        IF Given(payload, "PARTNAME") THEN Some(sanitize_name(ValueOf(payload, "PARTNAME")))
        ELSE None,
     maybe_modalias |->
        IF Given(payload, "MODALIAS")
        THEN Some(from_utf8_lossy(ValueOf(payload, "MODALIAS"))) ELSE None]

FromKernel(msg) == msg.creds = <<0>> /\ msg.addr = KernelAddr

\* C25: for a message of the kernel, read_uevent ignores the first
\* NUL-delimited segment of the payload, stores the value of every later
\* KEY=VALUE line with a recognised key in the key's field (a later line
\* replacing an earlier one), drops lines with other keys and lines that do
\* not read KEY=VALUE, returns the event when its action is Add, Remove or
\* Change and fails with InvalidData exactly when the action is Unknown (no
\* ACTION line, or the last one is none of add, remove, change).
C25_ParsesKeyValueLines ==
    (last.op = "read_uevent" /\ last.arg.tag = "Ok" /\ FromKernel(last.arg.val)) =>
        LET expected == ExpectedEvent(last.arg.val.payload)
        IN  IF expected.action = "Unknown" THEN last.ret = Err("InvalidData")
            ELSE last.ret = Ok(expected)

\* a payload whose first segment reads ACTION=add, followed by ACTION=remove
\* and a line with an unknown key, was parsed into a Remove event
C25_Witness ==
    /\ last.op = "read_uevent"
    /\ last.arg.tag = "Ok"
    /\ last.arg.val.payload = << <<"ACTION", "add">>, <<"ACTION", "remove">>,
                                 <<"SEQNUM", "1">> >>
    /\ last.ret = Ok([EmptyUEvent EXCEPT !.action = "Remove"])

\* the bytes of [A-Za-z0-9_.-]
NameBytes == (65..90) \cup (97..122) \cup (48..57) \cup {95, 46, 45}

Sanitized(input, name) ==
    /\ Len(name) = Len(input)
    /\ \A k \in 1..Len(input) :
        name[k] = (IF input[k] \in NameBytes THEN input[k] ELSE 95)

\* C26: the sanitized PARTNAME has the length of its input, keeps every byte
\* of [A-Za-z0-9_.-] and has '_' in the place of every other byte, for the
\* PARTNAME value of every event that read_uevent returns.
C26_SanitizedName ==
    (/\ last.op = "read_uevent"
     /\ last.ret.tag = "Ok"
     /\ Given(last.arg.val.payload, "PARTNAME")) =>
        /\ last.ret.val.maybe_partitionname # None
        /\ Sanitized(ValueOf(last.arg.val.payload, "PARTNAME"),
                     last.ret.val.maybe_partitionname[1])

\* the PARTNAME bytes "/Z" came back as "_Z"
C26_Witness ==
    /\ last.op = "read_uevent"
    /\ last.ret.tag = "Ok"
    /\ Given(last.arg.val.payload, "PARTNAME")
    /\ ValueOf(last.arg.val.payload, "PARTNAME") = <<47, 90>>
    /\ last.ret.val.maybe_partitionname = Some(<<95, 90>>)

(***************************************************************************)
(* Round trip and bit packing of the boot control record.                  *)
(***************************************************************************)
\* the values of the fields of a control view
ControlFields(ctrl) ==
    [slot_suffix |-> slot_suffix(ctrl),
     nb_slot |-> nb_slot(ctrl),
     recovery_tries_remaining |-> recovery_tries_remaining(ctrl),
     slot_info |-> [i \in 0..(NumSlotInfo - 1) |->
                       [priority |-> priority(ctrl, i),
                        tries_remaining |-> tries_remaining(ctrl, i),
                        successful_boot |-> successful_boot(ctrl, i),
                        verity_corrupted |-> verity_corrupted(ctrl, i)]]]

\* C27: when a CRC-valid 4096-byte message is decoded and serialised with
\* as_slice, the bytes returned are the bytes decoded, and decoding them
\* again gives the same values of slot_suffix, nb_slot,
\* recovery_tries_remaining and of priority, tries_remaining,
\* successful_boot and verity_corrupted of all four slots.
C27_RoundTrip ==
    (/\ last.op = "as_slice"
     /\ last.arg = MessageABSize
     /\ StoredCrcIsChecksum(misc)) =>
        /\ last.image = misc
        /\ LET first == try_from(misc, MessageABSize)
               again == try_from(last.image, MessageABSize)
           IN  /\ first.tag = "Ok"
               /\ again.tag = "Ok"
               /\ get_bootloader_control(first.val).tag = "Ok"
               /\ get_bootloader_control(again.val).tag = "Ok"
               /\ ControlFields(get_bootloader_control(again.val).val)
                      = ControlFields(get_bootloader_control(first.val).val)

\* the message with suffix "b", five recovery tries and four used slots was
\* decoded and serialised, and the bytes are the ones on the device
C27_Witness ==
    /\ last.op = "as_slice"
    /\ last.arg = MessageABSize
    /\ misc = MkMessage(MkControl(SuffixB, 2 + 16 * 5, FullSlots, 0))
    /\ last.image = misc
    /\ handle = misc

(***************************************************************************)
(* The setters of SlotMetadata on their own: the fields of one slot of a   *)
(* control view are set, in any order and any number of times.  misc keeps *)
(* the record the view was taken of.                                       *)
(***************************************************************************)
\* the two bytes of slot i
SlotBytes(ctrl, i) == <<At(ctrl, SlotData0(i)), At(ctrl, SlotData0(i) + 1)>>

InitSlot ==
    /\ UeventIdle
    /\ MepIdle
    /\ misc \in {MkMessage(MkControl(SuffixA, 4, <<0, 0, 0, 0, 0, 0, 0, 0>>, 0)),
                 MkMessage(MkControl(SuffixA, 4, FullSlots, 0))}
    /\ handle = misc
    /\ cmdline = "a"
    /\ faults = 0
    /\ last = [op |-> "none", arg |-> [slot |-> 0, value |-> 0], ret |-> NoCall,
               image |-> NoImage]

\* ctrl.slot_info[i].set_...(v): the slots other than i are as they were read
SetField(op, i, v, ctrl) ==
    /\ \A j \in 0..(NumSlotInfo - 1) :
           j # i => SlotBytes(handle.slot_suffix, j) = SlotBytes(misc.slot_suffix, j)
    /\ handle' = [handle EXCEPT !.slot_suffix = ctrl]
    /\ last' = [op |-> op, arg |-> [slot |-> i, value |-> v], ret |-> Ok("unit"),
                image |-> NoImage]
    /\ UNCHANGED <<misc, cmdline, faults>>
    /\ UNCHANGED otherThanBcs

SetPriority ==
    \E i \in 0..(NumSlotInfo - 1), v \in 0..15 :
        SetField("set_priority", i, v, set_priority(handle.slot_suffix, i, v))

SetTriesRemaining ==
    \E i \in 0..(NumSlotInfo - 1), v \in 0..7 :
        SetField("set_tries_remaining", i, v, set_tries_remaining(handle.slot_suffix, i, v))

SetSuccessfulBoot ==
    \E i \in 0..(NumSlotInfo - 1), v \in 0..1 :
        SetField("set_successful_boot", i, v, set_successful_boot(handle.slot_suffix, i, v))

SetVerityCorrupted ==
    \E i \in 0..(NumSlotInfo - 1), v \in 0..1 :
        SetField("set_verity_corrupted", i, v,
                 set_verity_corrupted(handle.slot_suffix, i, v))

NextSlot ==
    \/ SetPriority
    \/ SetTriesRemaining
    \/ SetSuccessfulBoot
    \/ SetVerityCorrupted

SpecSlot == InitSlot /\ [][NextSlot]_vars

\* the four fields of slot i
SlotFields(ctrl, i) ==
    [priority |-> priority(ctrl, i), tries_remaining |-> tries_remaining(ctrl, i),
     successful_boot |-> successful_boot(ctrl, i),
     verity_corrupted |-> verity_corrupted(ctrl, i)]

\* the field a setter is named after
FieldOf(op) ==
    CASE op = "set_priority" -> "priority"
      [] op = "set_tries_remaining" -> "tries_remaining"
      [] op = "set_successful_boot" -> "successful_boot"
      [] op = "set_verity_corrupted" -> "verity_corrupted"

\* C28: the two bytes of a Slot Metadata are byte0 = priority +
\* 16 * tries_remaining + 128 * successful_boot and byte1 = verity_corrupted,
\* for all priority in 0..15, tries_remaining in 0..7, successful_boot and
\* verity_corrupted in 0..1; (15, 7, 1, 1) is <<255, 1>> and <<0, 0>> reads
\* as four zero fields; a setter gives its field the value set and changes
\* no other field and no other byte of the record.
C28_BitPacking ==
    /\ [](\A i \in 0..(NumSlotInfo - 1) :
            LET bytes == SlotBytes(handle.slot_suffix, i)
                f == SlotFields(handle.slot_suffix, i)
            IN  /\ bytes[1] = f.priority + 16 * f.tries_remaining + 128 * f.successful_boot
                /\ bytes[2] = f.verity_corrupted
                /\ f = [priority |-> 15, tries_remaining |-> 7, successful_boot |-> 1,
                        verity_corrupted |-> 1] <=> bytes = <<255, 1>>
                /\ bytes = <<0, 0>> <=>
                       f = [priority |-> 0, tries_remaining |-> 0, successful_boot |-> 0,
                            verity_corrupted |-> 0])
    /\ [][LET i == last'.arg.slot
              before == SlotFields(handle.slot_suffix, i)
              after == SlotFields(handle'.slot_suffix, i)
          IN  /\ after = [before EXCEPT ![FieldOf(last'.op)] = last'.arg.value]
              /\ \A k \in 1..SlotSuffixRegionLen :
                     k \notin {SlotData0(i) + 1, SlotData0(i) + 2} =>
                         handle'.slot_suffix[k] = handle.slot_suffix[k]
              /\ [handle' EXCEPT !.slot_suffix = handle.slot_suffix] = handle]_vars

\* slot 2 of the record with no slot in use was given priority 15, 7 tries,
\* the successful flag and, last, the verity flag: its bytes are 0xFF, 0x01
C28_Witness ==
    /\ misc = MkMessage(MkControl(SuffixA, 4, <<0, 0, 0, 0, 0, 0, 0, 0>>, 0))
    /\ last.op = "set_verity_corrupted"
    /\ last.arg = [slot |-> 2, value |-> 1]
    /\ SlotBytes(handle.slot_suffix, 2) = <<255, 1>>
    /\ SlotFields(handle.slot_suffix, 2) =
           [priority |-> 15, tries_remaining |-> 7, successful_boot |-> 1,
            verity_corrupted |-> 1]

(***************************************************************************)
(* Order of the operations of mount_early_partitions                       *)
(***************************************************************************)

\* switch_to_new_root, lines 315-374: the steps of the root switch in the
\* order in which they are made
SwitchSteps == <<"move_mounts", "chdir", "move_root", "chroot">>

IsSwitchStep(c) == \E d \in 1..Len(SwitchSteps) : c.op = SwitchSteps[d]

\* the mount of the root entry on /new_root (line 110 or 112)
IsRootMount(c) == c.op = "mount" /\ c.target = NewRoot

\* an operation of the loop over the remaining entries (lines 128-146)
InLoop(k) == \E j \in 1..(k - 1) : syscalls[j].op = "chroot"

\* C29: in every run of mount_early_partitions the mount of the root entry
\* on /new_root precedes the root switch; the root switch is the move of the
\* existing mounts, chdir, the move of /new_root onto / and chroot, in that
\* order; it precedes the mount of every other fstab entry; and the other
\* entries are materialized and mounted one after another in the order of
\* the file.
C29_RootThenSwitchThenEntries ==
    /\ \A k \in 1..Len(syscalls) :
           syscalls[k].op = SwitchSteps[1] =>
               /\ \E j \in 1..(k - 1) : IsRootMount(syscalls[j])
               /\ k + Len(SwitchSteps) - 1 <= Len(syscalls)
               /\ \A d \in 1..Len(SwitchSteps) : syscalls[k + d - 1].op = SwitchSteps[d]
    /\ \A k \in 1..Len(syscalls) :
           IsSwitchStep(syscalls[k]) =>
               \E j \in 1..k : syscalls[j].op = SwitchSteps[1] /\ k - j < Len(SwitchSteps)
    /\ \A k \in 1..Len(syscalls) :
           IsRootMount(syscalls[k]) => ~InLoop(k)
    /\ \A k \in 1..Len(syscalls) :
           (syscalls[k].op = "mount" /\ ~IsRootMount(syscalls[k])) =>
               /\ InLoop(k)
               /\ \E j \in 1..(k - 1) :
                      /\ InLoop(j)
                      /\ syscalls[j] = Sys("ensure_mount_device_is_created",
                                           syscalls[k].entry, syscalls[k].target, TRUE)
               /\ \A i \in 1..(syscalls[k].entry - 1) :
                      fstab_entries[i].mountpoint # "/" =>
                          \E j \in 1..(k - 1) :
                              syscalls[j] = Sys("mount", i, fstab_entries[i].mountpoint, TRUE)
    /\ \A j, k \in 1..Len(syscalls) :
           (InLoop(j) /\ j < k) => syscalls[j].entry <= syscalls[k].entry

\* the fstab has /vendor, then "/" without first_stage_mount: the root
\* switch was made with nothing mounted on /new_root, then /vendor was
\* materialized and mounted
C29_Witness ==
    /\ Len(fstab_entries) = 2
    /\ fstab_entries[1].mountpoint = "/vendor"
    /\ fstab_entries[2].mountpoint = "/"
    /\ ~is_first_stage_mount(fstab_entries[2])
    /\ \A k \in 1..Len(syscalls) : ~IsRootMount(syscalls[k])
    /\ \E k \in 1..Len(syscalls) :
           /\ Len(syscalls) = k + Len(SwitchSteps) + 1
           /\ \A d \in 1..Len(SwitchSteps) :
                  syscalls[k + d - 1].op = SwitchSteps[d] /\ syscalls[k + d - 1].ok
           /\ syscalls[Len(syscalls) - 1] =
                  Sys("ensure_mount_device_is_created", 1, "/vendor", TRUE)
           /\ syscalls[Len(syscalls)] = Sys("mount", 1, "/vendor", TRUE)
    /\ mep_result = "Ok"

\* the mounts issued for entry i of the fstab
MountsOfEntry(i) ==
    {k \in 1..Len(syscalls) : syscalls[k].op = "mount" /\ syscalls[k].entry = i}

\* C30: in one run of mount_early_partitions an fstab entry whose mountpoint
\* is "/" is mounted at most once, with /new_root as the target and never
\* with "/"; once the root has been handled its mountpoint is "/" again; and
\* the loop over the remaining entries issues no operation for an entry
\* whose mountpoint is "/".
C30_RootMountedOnceOnNewRoot ==
    /\ \A i \in 1..Len(fstab_entries) :
           fstab_entries[i].mountpoint = "/" =>
               /\ Cardinality(MountsOfEntry(i)) <= 1
               /\ \A k \in MountsOfEntry(i) : IsRootMount(syscalls[k]) /\ ~InLoop(k)
    /\ \A k \in 1..Len(syscalls) :
           syscalls[k].op = "mount" => syscalls[k].target # "/"
    /\ \A k \in 1..Len(syscalls) :
           (IsRootMount(syscalls[k]) /\ syscalls[k].ok) =>
               /\ fstab_entries[syscalls[k].entry].mountpoint = "/"
               /\ syscalls[k].entry = FindRoot(fstab_entries)
    /\ \A k \in 1..Len(syscalls) :
           InLoop(k) =>
               /\ fstab_entries[syscalls[k].entry].mountpoint # "/"
               /\ syscalls[k].target # NewRoot

\* both entries of the fstab have "/" and first_stage_mount: the first was
\* mounted on /new_root, the root switch was made, the loop passed over
\* both entries and Ok was returned with that one mount
C30_Witness ==
    /\ Len(fstab_entries) = 2
    /\ \A i \in 1..2 :
           fstab_entries[i].mountpoint = "/" /\ is_first_stage_mount(fstab_entries[i])
    /\ mep_result = "Ok"
    /\ MountsOfEntry(1) # {}
    /\ \A k \in MountsOfEntry(1) : syscalls[k] = Sys("mount", 1, NewRoot, TRUE)
    /\ MountsOfEntry(2) = {}
    /\ syscalls[Len(syscalls)].op = "chroot"

(***************************************************************************)
(* The wait for the root device                                            *)
(***************************************************************************)

\* the attempts to materialize the root device (line 90), as positions of
\* the record of operations
RootDeviceAttempts ==
    {k \in 1..Len(syscalls) :
        syscalls[k].op = "ensure_mount_device_is_created" /\ syscalls[k].target = "/"}

\* C31: materialization of the root device is attempted at least once and
\* at most 5 times; an attempt is repeated only after it has failed, the
\* first successful attempt is the last one, and there is never a sixth.
C31_RootDeviceAttempts ==
    /\ Cardinality(RootDeviceAttempts) <= RootAttempts
    /\ \A j, k \in RootDeviceAttempts :
           j < k => (~syscalls[j].ok /\ \A m \in j..k : m \in RootDeviceAttempts)
    /\ \A k \in RootDeviceAttempts :
           /\ syscalls[k].entry = FindRoot(fstab_entries)
           /\ is_first_stage_mount(fstab_entries[syscalls[k].entry])
    /\ (mep_pc = "root_device" /\ RootDeviceAttempts # {}) =>
           \A k \in RootDeviceAttempts : ~syscalls[k].ok
    /\ (mep_pc = "root_mount" \/ \E k \in 1..Len(syscalls) : IsRootMount(syscalls[k])) =>
           /\ RootDeviceAttempts # {}
           /\ \/ \E k \in RootDeviceAttempts : syscalls[k].ok
              \/ Cardinality(RootDeviceAttempts) = RootAttempts

\* the root device appeared at the fifth attempt, after four failures, and
\* the root was then mounted
C31_Witness ==
    /\ Cardinality(RootDeviceAttempts) = RootAttempts
    /\ \E k \in RootDeviceAttempts :
           /\ syscalls[k].ok
           /\ \A j \in RootDeviceAttempts : j # k => (j < k /\ ~syscalls[j].ok)
    /\ \E k \in 1..Len(syscalls) : IsRootMount(syscalls[k]) /\ syscalls[k].ok

(***************************************************************************)
(* Mutating calls whose persistence fails                                  *)
(***************************************************************************)

\* the step is a mutating call that reached save_to_misc_partition and
\* returned its error
PersistenceFailed ==
    /\ last'.op \in Mutators
    /\ last'.ret = Err("IoError")
    /\ faults' = faults + 1

\* C32: when a mutating call (set_boot_successful, set_active_slot,
\* set_slot_as_unbootable) returns an error because persistence failed
\* (netlink socket, materialization of the MISC device, open or write), the
\* control record of the handle is as it was before the call and still
\* passes the CRC comparison, so that later queries on the handle do not
\* fail with InvalidData.
C32_FailedPersistenceKeepsRecord ==
    [][PersistenceFailed =>
           /\ handle' = handle
           /\ StoredCrcIsChecksum(handle')
           /\ number_of_slots(handle') = number_of_slots(handle)
           /\ active_slot(handle') = active_slot(handle)]_vars

\* the fixture record with "a" active was loaded; set_active_slot(1) failed
\* before any byte was written: the device still holds the fixture record,
\* the handle holds suffix "b" under the checksum of the old content, and
\* number_of_slots() on it answers InvalidData
C32_Witness ==
    /\ last.op = "set_active_slot"
    /\ last.arg = 1
    /\ last.ret = Err("IoError")
    /\ last.image = NoImage
    /\ misc = FixtureMessage
    /\ handle # NoHandle
    /\ Slice(handle.slot_suffix, 0, SuffixLen) = SuffixB
    /\ Slice(handle.slot_suffix, ControlBodyLen, SlotSuffixRegionLen) =
           Slice(misc.slot_suffix, ControlBodyLen, SlotSuffixRegionLen)
    /\ ~StoredCrcIsChecksum(handle)
    /\ number_of_slots(handle) = Err("InvalidData")

(***************************************************************************)
(* The closures that ensure_mount_device_is_created and                    *)
(* create_dm_device_entry hand to regenerate_uevent_for_dir.  Each is      *)
(* called with one event read from the socket; it compares a name of the   *)
(* event with the awaited name and, on a match, calls handle_uevent and    *)
(* unwraps its result.  A closure returns [ret, fs, handled]: ret is       *)
(* Ok("Stop"), Ok("Continue") or Panic, handled what handle_uevent         *)
(* returned (NoCall when it was not called).                               *)
(***************************************************************************)

\* the events read_uevent can return (their action is not Unknown): those
\* of DevEvents and a Remove event, with and without a DEVNAME
WaitEvents ==
    {[e EXCEPT !.maybe_devname = dn] :
        e \in DevEvents \cup
              {[BlockAdd("/devices/virtio1/block/vda/vda6", Some(252), Some(6), Some("system"))
                   EXCEPT !.action = a] : a \in {"Remove", "Change"}},
        dn \in {None, Some("vda6"), Some("vdb1")}}

\* lines 241-246 and 170-175: handle_uevent(e).unwrap(), then Stop
HandleMatched(fs, e, io) ==
    LET r == handle_uevent(fs, e, io)
    IN  [ret |-> IF r.ret.tag = "Ok" THEN Ok("Stop") ELSE Panic,
         fs |-> r.fs, handled |-> r.ret]

NotMatched(fs) == [ret |-> Ok("Continue"), fs |-> fs, handled |-> NoCall]

\* lines 226-248: the closure of ensure_mount_device_is_created
ensure_closure(fs, device_is_by_name, device_name, e, io) ==
    LET matched == IF device_is_by_name
                   THEN e.maybe_partitionname = Some(device_name)
                   ELSE e.maybe_devname = Some(device_name)
    IN  IF matched THEN HandleMatched(fs, e, io) ELSE NotMatched(fs)

\* lines 161-177: the closure of create_dm_device_entry
dm_entry_closure(fs, device_name, e, io) ==
    LET matched == e.maybe_devname = Some(device_name)
    IN  IF matched THEN HandleMatched(fs, e, io) ELSE NotMatched(fs)

\* the names waited for: a partition name (fs_spec /dev/block/by-name/<name>)
\* or a kernel name (fs_spec /dev/block/<name>, or the device_name of
\* create_dm_device_entry)
AwaitedPartitions == {"system"}
AwaitedDevnames == {"vda6", "vdb1"}

WaitCall(op, by_name, name, e, c) ==
    /\ devfs' = c.fs
    /\ last' = [op |-> op,
                arg |-> [event |-> e, by_name |-> by_name, name |-> name],
                ret |-> c.ret, image |-> c.handled]
    /\ UNCHANGED otherThanDev

\* regenerate_uevent_for_dir calls the closure of
\* ensure_mount_device_is_created with an event it read
EnsureClosure ==
    /\ last.ret # Panic
    /\ \E e \in WaitEvents, io \in IoChoices :
           \/ \E name \in AwaitedPartitions :
                  WaitCall("ensure_closure", TRUE, name, e,
                           ensure_closure(devfs, TRUE, name, e, io))
           \/ \E name \in AwaitedDevnames :
                  WaitCall("ensure_closure", FALSE, name, e,
                           ensure_closure(devfs, FALSE, name, e, io))

\* regenerate_uevent_for_dir calls the closure of create_dm_device_entry
DmEntryClosure ==
    /\ last.ret # Panic
    /\ \E e \in WaitEvents, io \in IoChoices, name \in AwaitedDevnames :
           WaitCall("dm_entry_closure", FALSE, name, e,
                    dm_entry_closure(devfs, name, e, io))

\* /dev as the first stage finds it: empty, or with /dev/block and nodes
InitWait ==
    /\ BcsIdle
    /\ UeventIdle
    /\ fstab_entries = <<>>
    /\ mep_pc = "idle"
    /\ syscalls = <<>>
    /\ mep_result = "none"
    /\ entry_index = 0
    /\ count = 0
    /\ next_dm_index = 0
    /\ dm = FALSE
    /\ em_pc = 0
    /\ em_done = <<>>
    /\ errors = <<>>
    /\ proc_misc = "device_mapper"
    /\ em_result = "none"
    /\ devfs \in {fs \in DevTrees : fs["/dev/block/by-name"].kind = "absent"}
    /\ last = [op |-> "none",
               arg |-> [event |-> EmptyUEvent, by_name |-> FALSE, name |-> ""],
               ret |-> NoCall, image |-> NoCall]

NextWait == EnsureClosure \/ DmEntryClosure

SpecWait == InitWait /\ [][NextWait]_vars

\* C33: every event that the closures of ensure_mount_device_is_created and
\* create_dm_device_entry hand to handle_uevent is an Add event with a
\* subsystem, so that for every stream of kernel events, Change and Remove
\* events that carry the awaited name included, handle_uevent reaches no
\* panic or todo branch.
C33_OnlyAddEventsHandled ==
    (last.op \in {"ensure_closure", "dm_entry_closure"} /\ last.image # NoCall) =>
        /\ last.arg.event.action = "Add"
        /\ last.arg.event.maybe_subsystem # None
        /\ last.image # Panic

\* the Change event of vda6, named vda6 by its DEVNAME, came while
\* /dev/block/vda6 was waited for: it was handed to handle_uevent, which
\* reached todo!()
C33_Witness ==
    /\ last.op = "ensure_closure"
    /\ ~last.arg.by_name
    /\ last.arg.name = "vda6"
    /\ last.arg.event.action = "Change"
    /\ last.arg.event.maybe_devname = Some("vda6")
    /\ last.image = Panic
    /\ last.ret = Panic

(***************************************************************************)
(* Which entries mount_early_partitions processes                          *)
(***************************************************************************)

\* the entries whose processing has begun: the root once its device was
\* waited for, an entry of the loop once its device was materialized
Processed ==
    {syscalls[k].entry : k \in {j \in 1..Len(syscalls) :
        /\ syscalls[j].entry # 0
        /\ \/ syscalls[j].op = "mount"
           \/ syscalls[j].op = "ensure_mount_device_is_created" /\ syscalls[j].ok}}

\* C34: whenever mount_early_partitions processes a verity-protected fstab
\* entry, the verity mapper has been constructed before (the Dm handle and
\* the vbmeta path are present), for every fstab, one whose only
\* verity-protected entries are not marked first_stage_mount included.
C34_VerityMapperPresent ==
    /\ \A i \in Processed : is_verity_protected(fstab_entries[i]) => dm
    /\ mep_result # "panic"

\* "/" is first stage and not verity protected, /vendor is verity protected
\* and not first stage: no mapper was prepared, the root was mounted and
\* switched to, the device of /vendor was materialized, and the function
\* panicked on dm.as_mut().unwrap()
C34_Witness ==
    /\ Len(fstab_entries) = 2
    /\ fstab_entries[1] = [mountpoint |-> "/", fs_manager_flags |-> {"first_stage_mount"}]
    /\ fstab_entries[2] = [mountpoint |-> "/vendor", fs_manager_flags |-> {"verity"}]
    /\ ~dm
    /\ \E k \in 1..Len(syscalls) : syscalls[k] = Sys("mount", 1, NewRoot, TRUE)
    /\ syscalls[Len(syscalls)] = Sys("ensure_mount_device_is_created", 2, "/vendor", TRUE)
    /\ mep_result = "panic"

\* the operations that materialize or mount entry i
OperationsOn(i) ==
    {k \in 1..Len(syscalls) :
        /\ syscalls[k].entry = i
        /\ syscalls[k].op \notin {"log_error:no_root", "log_error:not_first_stage"}}

\* C35: mount_early_partitions mounts only fstab entries that are marked
\* first_stage_mount: for an entry without the flag no device is
\* materialized and no mount is made.
C35_OnlyFirstStageEntries ==
    \A i \in 1..Len(fstab_entries) :
        ~is_first_stage_mount(fstab_entries[i]) => OperationsOn(i) = {}

\* "/" is first stage, /vendor has no flag: after the root switch the device
\* of /vendor was materialized, /vendor was mounted and Ok returned
C35_Witness ==
    /\ Len(fstab_entries) = 2
    /\ fstab_entries[1] = [mountpoint |-> "/", fs_manager_flags |-> {"first_stage_mount"}]
    /\ fstab_entries[2] = [mountpoint |-> "/vendor", fs_manager_flags |-> {}]
    /\ Len(syscalls) >= 2
    /\ syscalls[Len(syscalls) - 1] = Sys("ensure_mount_device_is_created", 2, "/vendor", TRUE)
    /\ syscalls[Len(syscalls)] = Sys("mount", 2, "/vendor", TRUE)
    /\ mep_result = "Ok"

(***************************************************************************)
(* switch_to_new_root: the mounts that are moved.  A mountpoint is the     *)
(* sequence of the pieces of its text, "/" being a piece of its own:       *)
(* /run2 is <<"/", "run", "2">> and /run/lock <<"/", "run", "/", "lock">>, *)
(* so that one text starts with another exactly when its sequence starts   *)
(* with the other's.                                                       *)
(***************************************************************************)

\* longest /proc/mounts examined
MaxMounts == 3

RootDir == <<"/">>
NewRootDir == <<"/", "new_root">>

MountDirs ==
    {RootDir, NewRootDir, <<"/", "proc">>, <<"/", "dev">>, <<"/", "dev", "/", "pts">>,
     <<"/", "run">>, <<"/", "run", "2">>, <<"/", "run", "/", "lock">>}

ProcMounts == UNION {[1..n -> MountDirs] : n \in 0..MaxMounts}

\* str::starts_with
starts_with(text, prefix) ==
    Len(prefix) <= Len(text) /\ SubSeq(text, 1, Len(prefix)) = prefix

\* get_all_mounts(skip), lines 378-421: mounts is what getmntent still has
\* to return, res the vector built so far
RECURSIVE get_all_mounts(_, _, _)
get_all_mounts(mounts, skip, res) ==
    IF mounts = <<>> THEN res
    ELSE LET mnt_dir == Head(mounts)
         IN  IF mnt_dir = RootDir \/ mnt_dir = skip
             THEN get_all_mounts(Tail(mounts), skip, res)
             ELSE IF \E k \in 1..Len(res) : starts_with(mnt_dir, res[k])
             THEN get_all_mounts(Tail(mounts), skip, res)
             ELSE get_all_mounts(Tail(mounts), skip, Append(res, mnt_dir))

\* str::trim_start_matches('/')
RECURSIVE trim_start_matches(_)
trim_start_matches(text) ==
    IF text # <<>> /\ Head(text) = "/" THEN trim_start_matches(Tail(text)) ELSE text

\* line 319: Path::new(root_str).join(mount.trim_start_matches('/'))
new_mount_path(root, mount) == root \o <<"/">> \o trim_start_matches(mount)

\* lines 318-346: the mount(source, target, MS_MOVE) calls of the loop
MovedMounts(mounts, new_root) ==
    LET res == get_all_mounts(mounts, new_root, <<>>)
    IN  [k \in 1..Len(res) |->
            [source |-> res[k], target |-> new_mount_path(new_root, res[k])]]

SwitchMoves ==
    /\ last.op = "none"
    /\ last' = [last EXCEPT !.op = "switch_to_new_root",
                            !.ret = [tag |-> "Ok",
                                     val |-> MovedMounts(last.arg.mounts, last.arg.new_root)]]
    /\ UNCHANGED <<bcsVars, ueVars, mepVars, emVars, devfs>>

InitMounts ==
    /\ BcsIdle
    /\ UeventIdle
    /\ MepIdle
    /\ \E mounts \in ProcMounts :
        last = [op |-> "none", arg |-> [mounts |-> mounts, new_root |-> NewRootDir],
                ret |-> NoCall, image |-> NoImage]

NextMounts == SwitchMoves

SpecMounts == InitMounts /\ [][NextMounts]_vars

\* Path::components of an absolute path: the names between the separators
RECURSIVE Components(_, _)
Components(text, name) ==
    IF text = <<>> THEN (IF name = <<>> THEN <<>> ELSE <<name>>)
    ELSE IF Head(text) = "/"
    THEN (IF name = <<>> THEN <<>> ELSE <<name>>) \o Components(Tail(text), <<>>)
    ELSE Components(Tail(text), Append(name, Head(text)))

\* dir is path or lies below it
IsNestedUnder(dir, path) ==
    LET d == Components(dir, <<>>)
        p == Components(path, <<>>)
    IN  Len(p) <= Len(d) /\ SubSeq(d, 1, Len(p)) = p

\* the mountpoints to move according to the rule: in listing order, neither
\* / nor /new_root, not nested under one collected earlier
RECURSIVE CollectedBySpec(_, _)
CollectedBySpec(mounts, collected) ==
    IF mounts = <<>> THEN collected
    ELSE LET dir == Head(mounts)
         IN  IF \/ dir \in {RootDir, NewRootDir}
                \/ \E k \in 1..Len(collected) : IsNestedUnder(dir, collected[k])
             THEN CollectedBySpec(Tail(mounts), collected)
             ELSE CollectedBySpec(Tail(mounts), Append(collected, dir))

\* C36: the mounts moved by switch_to_new_root are exactly the /proc/mounts
\* entries, in listing order, whose mountpoint is neither / nor /new_root
\* and is not nested, as a path, under a mountpoint collected earlier; each
\* is moved to /new_root/<path>, also when its text begins with the text of
\* a collected one without lying below it (/run2 listed after /run).
C36_MovesTopLevelMounts ==
    last.op = "switch_to_new_root" =>
        LET want == CollectedBySpec(last.arg.mounts, <<>>)
        IN  /\ Len(last.ret.val) = Len(want)
            /\ \A k \in 1..Len(want) :
                   /\ last.ret.val[k].source = want[k]
                   /\ last.ret.val[k].target = NewRootDir \o want[k]

\* /proc/mounts lists /, /run and /run2: /run was moved to /new_root/run
\* and /run2 was not moved
C36_Witness ==
    /\ last.op = "switch_to_new_root"
    /\ last.arg.mounts = <<RootDir, <<"/", "run">>, <<"/", "run", "2">> >>
    /\ last.ret.val = << [source |-> <<"/", "run">>,
                          target |-> <<"/", "new_root", "/", "run">>] >>

(***************************************************************************)
(* Missing directories above a node or a by-name link                      *)
(***************************************************************************)

\* the directories above path, "/" left out
DirsAbove(path) ==
    {Ancestors(Parent[path])[k] : k \in 1..Len(Ancestors(Parent[path]))} \ {"/"}

\* C37: whatever directories above the node or the by-name link are missing
\* under /dev, several consecutive levels included, create_device and
\* create_links create every missing directory with the owner, group and
\* mode of the policy and then create the node or the link (mkdir, mknod
\* and symlink working).
C37_CreatesMissingAncestors ==
    \A event \in {e \in DevEvents :
                     /\ e.action = "Add"
                     /\ e.maybe_subsystem = Some("block")
                     /\ e.maybe_major # None
                     /\ e.maybe_minor # None} :
        LET r == handle_add(devfs, event, AllOk)
            path == "/dev/block/" \o FileName[event.dev_path]
            attrs == get_file_attributes(path)
            named == event.maybe_partitionname # None
            link == "/dev/block/by-name/" \o event.maybe_partitionname[1]
            above == DirsAbove(path) \cup (IF named THEN DirsAbove(link) ELSE {})
        IN  (\E p \in above : devfs[p] = Absent) =>
                /\ r.ret = Unit
                /\ \A p \in above :
                       IF devfs[p] = Absent
                       THEN r.fs[p] = Dir(attrs.mode, attrs.owner, attrs.group)
                       ELSE r.fs[p] = devfs[p]
                /\ r.fs[path].kind = "S_IFBLK"
                /\ named => r.fs[link].kind = "link"

\* /dev did not exist when the Add event of vda6 (partition system) was
\* handled: create_dir of /dev/block failed, NotFound was returned and
\* nothing was created
C37_Witness ==
    /\ last.op = "handle_uevent"
    /\ last.arg = BlockAdd("/devices/virtio1/block/vda/vda6", Some(252), Some(6),
                           Some("system"))
    /\ last.ret = Err("NotFound")
    /\ \A p \in DevPaths : devfs[p] = Absent

(***************************************************************************)
(* The tmpfs mounts of early_mount                                         *)
(***************************************************************************)

\* the mountflags argument of the mount calls for /mnt, /run and /idex
\* (early_mount.rs lines 189, 200 and 212)
TmpfsMountFlags ==
    [p \in {"/mnt", "/run", "/idex"} |->
        IF p = "/idex" THEN MS_NOSUID
        ELSE BitOr(MS_NOEXEC, BitOr(MS_NOSUID, MS_NODEV))]

\* flag is a single bit
HasFlag(flags, flag) == (flags \div flag) % 2 = 1

\* the mount calls made so far for tmpfs on path
TmpfsMountsDone(path) ==
    {k \in 1..Len(em_done) :
        /\ em_done[k].step <= Len(EarlyMountSteps)
        /\ EarlyMountSteps[em_done[k].step].op = "mount"
        /\ EarlyMountSteps[em_done[k].step].path = path}

\* C38: early_mount mounts tmpfs on each of /mnt, /run and /idex with the
\* three flags MS_NOEXEC, MS_NOSUID and MS_NODEV set.
C38_TmpfsFlags ==
    /\ \A p \in DOMAIN TmpfsMountFlags :
           TmpfsMountsDone(p) # {} =>
               /\ HasFlag(TmpfsMountFlags[p], MS_NOEXEC)
               /\ HasFlag(TmpfsMountFlags[p], MS_NOSUID)
               /\ HasFlag(TmpfsMountFlags[p], MS_NODEV)
    /\ em_result = "returned" =>
           \A p \in DOMAIN TmpfsMountFlags : Cardinality(TmpfsMountsDone(p)) = 1

\* early_mount returned without an error after mounting tmpfs on /idex with
\* MS_NOSUID alone
C38_Witness ==
    /\ em_result = "returned"
    /\ errors = <<>>
    /\ \E k \in TmpfsMountsDone("/idex") : em_done[k].ok
    /\ TmpfsMountFlags["/idex"] = MS_NOSUID
    /\ ~HasFlag(TmpfsMountFlags["/idex"], MS_NOEXEC)
    /\ ~HasFlag(TmpfsMountFlags["/idex"], MS_NODEV)

(***************************************************************************)
(* Names of the verity devices                                             *)
(***************************************************************************)

\* the calls of create_dm_device, as positions of the record of operations
DmBuilds ==
    {k \in 1..Len(syscalls) : syscalls[k].op \in {"create_dm_device:" \o f : f \in DmFailures}}

\* C39: within one run of mount_early_partitions the k-th verity-protected
\* entry processed (the root first, then the others in file order) is given
\* the device-mapper name dm-(k-1): the index starts at 0 and grows by one
\* per verity-protected entry, and no two entries of a run get the same name.
C39_DmNamesCountUp ==
    /\ \A k \in DmBuilds :
           /\ syscalls[k].target =
                  "dm-" \o ToString(Cardinality({j \in DmBuilds : j < k}))
           /\ is_verity_protected(fstab_entries[syscalls[k].entry])
    /\ \A j, k \in DmBuilds :
           j < k => /\ syscalls[j].target # syscalls[k].target
                    /\ syscalls[j].entry # syscalls[k].entry
                    /\ \/ syscalls[j].entry < syscalls[k].entry
                       \/ syscalls[j].entry = FindRoot(fstab_entries)
    /\ \A k \in 1..Len(syscalls) :
           syscalls[k].op = "create_dm_device_entry" =>
               /\ k - 1 \in DmBuilds
               /\ syscalls[k - 1].entry = syscalls[k].entry
               /\ syscalls[k - 1].target = syscalls[k].target
    /\ \A k \in 1..Len(syscalls) :
           (syscalls[k].op = "mount" /\ is_verity_protected(fstab_entries[syscalls[k].entry])) =>
               \E j \in DmBuilds : j < k /\ syscalls[j].entry = syscalls[k].entry
    /\ dm => next_dm_index = Cardinality(DmBuilds)
    /\ mep_pc \in {"start", "root", "root_device"} => next_dm_index = 0

\* "/" and /vendor are both verity protected and first stage: the root was
\* built as dm-0 and mounted, /vendor was built as dm-1 and mounted
C39_Witness ==
    /\ Len(fstab_entries) = 2
    /\ \A i \in 1..2 : fstab_entries[i].fs_manager_flags = {"first_stage_mount", "verity"}
    /\ fstab_entries[1].mountpoint = "/"
    /\ mep_result = "Ok"
    /\ \E j, k \in DmBuilds :
           /\ syscalls[j] = Sys("create_dm_device:none", 1, "dm-0", TRUE)
           /\ syscalls[k] = Sys("create_dm_device:none", 2, "dm-1", TRUE)
    /\ syscalls[Len(syscalls)] = Sys("mount", 2, "/vendor", TRUE)
    /\ next_dm_index = 2

(***************************************************************************)
(* What a successful mutating call changes                                 *)
(***************************************************************************)

\* the offsets in the control region of the field op sets, and of the CRC
TargetBytes(op, arg, cl) ==
    IF op = "set_active_slot" THEN 0..(SuffixLen - 1)
    ELSE IF op = "set_boot_successful" THEN {SlotData0(current_slot(cl).val)}
    ELSE {SlotData0(arg)}

CrcBytes == ControlBodyLen..(SlotSuffixRegionLen - 1)

\* new differs from old in the field op sets and in the CRC at most
ChangesTargetOnly(op, arg, cl, old, new) ==
    /\ new.message = old.message
    /\ new.update_channel = old.update_channel
    /\ new.reserved = old.reserved
    /\ \A k \in 0..(SlotSuffixRegionLen - 1) :
           k \notin TargetBytes(op, arg, cl) \cup CrcBytes =>
               At(new.slot_suffix, k) = At(old.slot_suffix, k)
    /\ op = "set_boot_successful" =>
           \A k \in TargetBytes(op, arg, cl) :
               GetBits(At(new.slot_suffix, k), 0, 6) = GetBits(At(old.slot_suffix, k), 0, 6)
    /\ op = "set_slot_as_unbootable" =>
           \A k \in TargetBytes(op, arg, cl) :
               /\ GetBits(At(new.slot_suffix, k), 0, 3) = GetBits(At(old.slot_suffix, k), 0, 3)
               /\ GetBits(At(new.slot_suffix, k), 7, 7) = GetBits(At(old.slot_suffix, k), 7, 7)

\* C40: a successful mutating call changes only its target field
\* (slot_suffix for set_active_slot, successful_boot of the current slot for
\* set_boot_successful, tries_remaining of slot i for
\* set_slot_as_unbootable) and the 4 CRC bytes: the legacy message,
\* update_channel, the reserved areas, magic, version, nb_slot,
\* recovery_tries_remaining and all other slot fields are unchanged, byte
\* for byte, in memory and in the first 4096 bytes of MISC.
C40_ChangesOnlyTargetField ==
    [][(last'.op \in Mutators /\ last'.ret.tag = "Ok") =>
           /\ ChangesTargetOnly(last'.op, last'.arg, cmdline, handle, handle')
           /\ ChangesTargetOnly(last'.op, last'.arg, cmdline, misc, misc')]_vars

\* an earlier mutating call failed in write_all and the handle kept its
\* change; the set_active_slot(1) that then returned Ok wrote the whole
\* record of the handle: on the device slot 1 has no tries left although no
\* successful call made it unbootable
C40_Witness ==
    /\ last.op = "set_active_slot"
    /\ last.arg = 1
    /\ last.ret.tag = "Ok"
    /\ faults = 1
    /\ misc = handle
    /\ Slice(misc.slot_suffix, 0, SuffixLen) = SuffixB
    /\ nb_slot(misc.slot_suffix) = 2
    /\ tries_remaining(misc.slot_suffix, 1) = 0
    /\ tries_remaining(misc.slot_suffix, 0) = tries_remaining(FixtureMessage.slot_suffix, 0)
    /\ successful_boot(misc.slot_suffix, 0) = 0
    /\ successful_boot(misc.slot_suffix, 1) = 0

====
